---- MODULE Spec2Model ----
(***************************************************************************)
(* co-mit: the AI Gateway (services/geminiService.ts and its earlier       *)
(* revision), the root App component with its persisted reflections list,  *)
(* the morning and night reflection flows of both revisions of App.tsx,    *)
(* and the conversational chat views.                                      *)
(*                                                                         *)
(* Texts are short sequences of one-character strings where the code       *)
(* inspects them (compareGoalRecall's fallback), and opaque strings ("" is *)
(* the empty text) everywhere else.  A JSON value the model returns is a   *)
(* function from field names to strings; the string "undefined" stands for *)
(* a field that is absent.                                                 *)
(***************************************************************************)
EXTENDS Integers, Sequences, FiniteSets, TLC

VARIABLES
    ver,          \* which revision of App.tsx runs: "v1" (lines 1-1335) or "v2" (lines 1337-3100)
    today,        \* the calendar day getLocalTodayDate()/getTodayString() returns
    view,         \* App: view
    reflections,  \* App: reflections
    streak,       \* App (v1): streak
    memoDay,      \* App (v1): the day on which the todayReflection memo was last computed
    m,            \* MorningConversationView: its useState slots
    n,            \* NightReflectionView: its useState slots
    call,         \* the AI Gateway call a flow is awaiting, or NoCall
    gw,           \* the last completed AI Gateway call with its result (gateway specification)
    chat,         \* AITwinView / HelpModal / AIToolsView: history, input, responses in flight
    boot,         \* App: "loading" while isLoading / initializing, "ready", "crashed" once a render or effect threw
    settings,     \* App: userSettings (first revision), settings (second revision)
    setupData,    \* App (first revision): setupData
    store,        \* localStorage: the texts under the settings, reflections and streak keys
    dash          \* DashboardView (first revision): what its refund useMemo returned, or NoDash

vars == <<ver, today, view, reflections, streak, memoDay, m, n, call, gw, chat,
          boot, settings, setupData, store, dash>>

(***************************************************************************)
(* Bounds of the model.                                                    *)
(***************************************************************************)
MaxDay == 2
MaxTasks == 2
MaxDailyTasks == 3
MaxLogs == 1
MaxExtras == 1
MaxChat == 3

(***************************************************************************)
(* Text helpers.                                                           *)
(***************************************************************************)
\* String.prototype.toLowerCase on the model's alphabet
LowerChar(c) == IF c = "A" THEN "a" ELSE IF c = "B" THEN "b" ELSE c

ToLowerCase(s) == [i \in 1..Len(s) |-> LowerChar(s[i])]

\* String.prototype.substring(0, k)
Substring0(s, k) == IF Len(s) <= k THEN s ELSE SubSeq(s, 1, k)

\* String.prototype.includes
Includes(s, sub) ==
    \E i \in 0..(Len(s) - Len(sub)) : SubSeq(s, i + 1, i + Len(sub)) = sub

\* the texts a goal or a recall of it is drawn from
GoalTexts == { <<>>, <<"a", "b", "c", "d", "e", "f">> , <<"x", "y">> }
RecallTexts == { <<"a", "b", "c", "d", "e">>, <<"A", "b", "c", "d", "e", "f", "g">>,
                 <<"a", "b">>, <<"x", "y", "z">> }

(***************************************************************************)
(* The underlying model call: ai.models.generateContent either throws or   *)
(* returns a text.  kind says what the text is; obj is the JSON value it   *)
(* holds when it holds one.                                                *)
(*   "throws"  the call throws (network, quota, ...)                       *)
(*   "empty"   the text is undefined (or "", for a JSON answer)             *)
(*   "garbage" the text holds no JSON at all                               *)
(*   "fenced"  a JSON object wrapped in a markdown code fence              *)
(*   "null"    the JSON text null                                          *)
(*   "json"    a JSON object                                               *)
(***************************************************************************)
ResponseKinds == {"throws", "empty", "garbage", "fenced", "null", "json"}

Resolved(v) == [status |-> "resolved", value |-> v]
Rejected == [status |-> "rejected", value |-> "TypeError"]

\* cleanJson followed by JSON.parse (geminiService.ts): "parsed" with the
\* object, "parsednull" for JSON null, "throws" when JSON.parse throws
CleanJsonParse(kind) ==
    CASE kind = "empty"   -> "emptyobject"
      [] kind = "json"    -> "object"
      [] kind = "fenced"  -> "object"
      [] kind = "null"    -> "null"
      [] OTHER            -> "throws"

\* response.text.trim() followed by JSON.parse (earlier revision): an
\* undefined or empty text and a fenced text make it throw
TrimParse(kind) ==
    CASE kind = "json"    -> "object"
      [] kind = "null"    -> "null"
      [] OTHER            -> "throws"

\* the fields of the parsed value: all absent for {}
Field(parsed, obj, f) == IF parsed = "object" THEN obj[f] ELSE "undefined"

FallbackPrefixLen == 5
FallbackPrefixLenV1 == 10

\* the catch block of compareGoalRecall: a substring test on the two texts
CompareFallback(userInput, correctGoal, k) ==
    Includes(ToLowerCase(userInput), Substring0(ToLowerCase(correctGoal), k))

\* compareGoalRecall (geminiService.ts)
CompareGoalRecall(userInput, correctGoal, kind, obj) ==
    LET parsed == CleanJsonParse(kind) IN
    IF kind = "throws" \/ parsed = "throws" \/ parsed = "null"
    THEN Resolved(CompareFallback(userInput, correctGoal, FallbackPrefixLen))
    ELSE Resolved(Field(parsed, obj, "match") = "true")

\* compareGoalRecall (earlier revision)
CompareGoalRecallV1(userInput, correctGoal, kind, obj) ==
    LET parsed == TrimParse(kind) IN
    IF kind = "throws" \/ parsed = "throws" \/ parsed = "null"
    THEN Resolved(CompareFallback(userInput, correctGoal, FallbackPrefixLenV1))
    ELSE Resolved(Field(parsed, obj, "match") = "true")

\* String.prototype.toLowerCase on the judgment and analysis words
LowerWord(w) ==
    CASE w = "Appropriate"    -> "appropriate"
      [] w = "Insufficient"   -> "insufficient"
      [] w = "Responsibility" -> "responsibility"
      [] w = "Excuse"         -> "excuse"
      [] OTHER                -> w

EvalFallback == [judgment |-> "appropriate", response |-> "great task, good luck"]
EvalDefault == [judgment |-> "appropriate", response |-> "great task"]

\* a fallback evaluator that looks at the length of a first task
EvaluateTaskByLength(task, isFirstTask, kind, obj) ==
    IF kind \in {"throws", "garbage"}
    THEN Resolved([judgment |-> IF isFirstTask /\ Len(task) < 10 THEN "insufficient" ELSE "appropriate",
                   response |-> EvalFallback.response])
    ELSE Resolved(EvalDefault)

\* evaluateTask (geminiService.ts): the task text and isFirstTask only shape the prompt
EvaluateTask(task, isFirstTask, kind, obj) ==
    LET parsed == CleanJsonParse(kind) IN
    IF kind = "throws" \/ parsed = "throws" \/ parsed = "null"
    THEN Resolved(EvalFallback)
    ELSE LET judgment == LowerWord(Field(parsed, obj, "judgment")) IN
         IF judgment \in {"appropriate", "insufficient"}
         THEN Resolved([judgment |-> judgment, response |-> Field(parsed, obj, "response")])
         ELSE Resolved(EvalDefault)

\* evaluateTask (earlier revision): no isFirstTask, no case folding
EvaluateTaskV1(task, kind, obj) ==
    LET parsed == TrimParse(kind) IN
    IF kind = "throws" \/ parsed = "throws" \/ parsed = "null"
    THEN Resolved(EvalFallback)
    ELSE LET judgment == Field(parsed, obj, "judgment") IN
         IF judgment \in {"appropriate", "insufficient"}
         THEN Resolved([judgment |-> judgment, response |-> Field(parsed, obj, "response")])
         ELSE Resolved(EvalDefault)

FallbackSteps == <<"prepare", "do", "review">>

\* a breakdown whose failure reaches the caller
BreakDownTaskIntoStepsRejecting(task, kind, steps) ==
    IF kind = "throws" THEN Rejected ELSE Resolved(steps)

\* breakDownTaskIntoSteps: steps is the "steps" array of the object (<<>> when absent)
BreakDownTaskIntoSteps(task, kind, steps) ==
    LET parsed == CleanJsonParse(kind) IN
    IF kind = "throws" \/ parsed = "throws" \/ parsed = "null"
    THEN Resolved(FallbackSteps)
    ELSE IF parsed = "object" THEN Resolved(steps) ELSE Resolved(<<>>)

\* analyzeSentiment (geminiService.ts)
AnalyzeSentiment(kind, obj) ==
    LET parsed == CleanJsonParse(kind) IN
    IF kind = "throws" \/ parsed = "throws" \/ parsed = "null"
    THEN Resolved("positive")
    ELSE Resolved(IF Field(parsed, obj, "sentiment") = "negative" THEN "negative" ELSE "positive")

\* analyzeSentiment (earlier revision)
AnalyzeSentimentV1(kind, obj) ==
    LET parsed == TrimParse(kind) IN
    IF kind = "throws" \/ parsed = "throws" \/ parsed = "null"
    THEN Resolved("positive")
    ELSE Resolved(IF Field(parsed, obj, "sentiment") = "negative" THEN "negative" ELSE "positive")

FailureFallback == [analysis |-> "responsibility", response |-> "then just do it"]

\* analyzeFailureReason (geminiService.ts)
AnalyzeFailureReason(kind, obj) ==
    LET parsed == CleanJsonParse(kind) IN
    IF kind = "throws" \/ parsed = "throws" \/ parsed = "null"
    THEN Resolved(FailureFallback)
    ELSE LET analysis == LowerWord(Field(parsed, obj, "analysis")) IN
         IF analysis \in {"responsibility", "excuse"}
         THEN Resolved([analysis |-> analysis, response |-> Field(parsed, obj, "response")])
         ELSE Resolved(FailureFallback)

\* analyzeFailureReason (earlier revision)
AnalyzeFailureReasonV1(kind, obj) ==
    LET parsed == TrimParse(kind) IN
    IF kind = "throws" \/ parsed = "throws" \/ parsed = "null"
    THEN Resolved(FailureFallback)
    ELSE LET analysis == Field(parsed, obj, "analysis") IN
         IF analysis \in {"responsibility", "excuse"}
         THEN Resolved([analysis |-> analysis, response |-> Field(parsed, obj, "response")])
         ELSE Resolved(FailureFallback)

AlphaFallback == [isNull |-> FALSE, meaningful |-> "true", response |-> ""]

\* evaluateAlphaTask (geminiService.ts): the parsed value is returned as it is
EvaluateAlphaTask(kind, obj) ==
    LET parsed == CleanJsonParse(kind) IN
    IF kind = "throws" \/ parsed = "throws"
    THEN Resolved(AlphaFallback)
    ELSE IF parsed = "null"
    THEN Resolved([isNull |-> TRUE, meaningful |-> "undefined", response |-> "undefined"])
    ELSE Resolved([isNull |-> FALSE, meaningful |-> Field(parsed, obj, "meaningful"),
                   response |-> Field(parsed, obj, "response")])

\* evaluateAlphaTask (earlier revision)
EvaluateAlphaTaskV1(kind, obj) ==
    LET parsed == TrimParse(kind) IN
    IF kind = "throws" \/ parsed = "throws"
    THEN Resolved(AlphaFallback)
    ELSE IF parsed = "null"
    THEN Resolved([isNull |-> TRUE, meaningful |-> "undefined", response |-> "undefined"])
    ELSE Resolved([isNull |-> FALSE, meaningful |-> Field(parsed, obj, "meaningful"),
                   response |-> Field(parsed, obj, "response")])

SummaryFallback == "looked back on the day"

\* what a caller passes as nightData.extras: an array, a string, or nothing
ExtrasShapes == {"array", "string", "undefined"}

\* generateNightSummary (geminiService.ts): the prompt, built before the try,
\* calls nightData.extras.join; response.text.trim() runs inside the try, so
\* an undefined text ends in the catch block and a text "" is returned as ""
GenerateNightSummary(extrasShape, kind, text) ==
    IF extrasShape # "array" THEN Rejected
    ELSE IF kind \in {"throws", "empty"} THEN Resolved(SummaryFallback)
    ELSE Resolved(text)

\* generateNightSummary (earlier revision): extras is only interpolated
GenerateNightSummaryV1(extrasShape, kind, text) ==
    IF kind \in {"throws", "empty"} THEN Resolved(SummaryFallback)
    ELSE Resolved(text)

\* summarizeNightReflection (earlier revision): response.text is returned as it is
SummarizeNightReflectionV1(kind, text) ==
    IF kind = "throws" THEN Resolved("recall yesterday")
    ELSE IF kind = "empty" THEN Resolved("undefined")
    ELSE Resolved(text)

TwinFallback == "cannot recall that day"

\* generateAITwinResponse: response.text is returned as it is
GenerateAITwinResponse(kind, text) ==
    IF kind = "throws" THEN Resolved(TwinFallback)
    ELSE IF kind = "empty" THEN Resolved("undefined")
    ELSE Resolved(text)

(***************************************************************************)
(* The answers the model can give to each prompt.                          *)
(***************************************************************************)
Answers(objs, none) ==
    { [kind |-> k, obj |-> o] : k \in {"json", "fenced"}, o \in objs }
    \cup { [kind |-> k, obj |-> none] : k \in {"throws", "empty", "garbage", "null"} }

MatchObjs == [match : {"true", "false", "undefined"}]
NoMatch == [match |-> "undefined"]
EvalObjs == [judgment : {"appropriate", "insufficient", "Insufficient", "maybe", "undefined"},
             response : {"comment", "", "undefined"}]
NoEval == [judgment |-> "undefined", response |-> "undefined"]
SentimentObjs == [sentiment : {"positive", "negative", "undefined"}]
NoSentiment == [sentiment |-> "undefined"]
FailureObjs == [analysis : {"responsibility", "excuse", "Excuse", "undefined"},
                response : {"comment", "undefined"}]
NoFailure == [analysis |-> "undefined", response |-> "undefined"]
AlphaObjs == [meaningful : {"true", "false", "undefined"}, response : {"question", "", "undefined"}]
NoAlpha == [meaningful |-> "undefined", response |-> "undefined"]
StepLists == { <<>>, <<"step">>, <<"step", "">>, <<"step", "step", "step">> }
TextAnswers ==
    { [kind |-> "text", text |-> t] : t \in {"", "summary"} }
    \cup { [kind |-> k, text |-> "undefined"] : k \in {"throws", "empty"} }

\* task texts by length: the code never looks at the length, the specification does
TaskLens == {1, 9, 10, 12}
TaskText(k) == [i \in 1..k |-> "t"]
TaskTexts == { TaskText(k) : k \in TaskLens }

(***************************************************************************)
(* Settings and localStorage.  A UserSettings is [set, depositAmount,      *)
(* commitmentWeeks, commitmentStartDate, threeWeekGoalDeadline,            *)
(* quarterlyGoalDeadline] with set = FALSE for null; dates are day numbers.*)
(* A stored text is [kind, value]: "absent" (getItem returns null),        *)
(* "malformed" (JSON.parse throws), "null" (the text null) or "json".      *)
(***************************************************************************)
GoalDays == 21
QuarterDays == 90

NoSettings ==
    [set |-> FALSE, depositAmount |-> 0, commitmentWeeks |-> 0, commitmentStartDate |-> 0,
     threeWeekGoalDeadline |-> 0, quarterlyGoalDeadline |-> 0]

\* the settings SetupView and DepositView of the first revision put together
V1NewSettings(d, weeks, deposit) ==
    [NoSettings EXCEPT !.set = TRUE, !.depositAmount = deposit, !.commitmentWeeks = weeks,
                       !.commitmentStartDate = d]

\* SetupView.handleSave (second revision)
V2NewSettings(d) ==
    [NoSettings EXCEPT !.set = TRUE, !.commitmentStartDate = d,
                       !.threeWeekGoalDeadline = d + GoalDays,
                       !.quarterlyGoalDeadline = d + QuarterDays]

Json(v) == [kind |-> "json", value |-> v]
NoStore ==
    [settings |-> [kind |-> "absent", value |-> NoSettings],
     reflections |-> [kind |-> "absent", value |-> <<>>],
     streak |-> [kind |-> "absent", value |-> 0]]

\* the save effect of the first revision: it runs after a render in which
\* userSettings, reflections or streak is a new value, once isLoading is false
V1Persist(us, rs, st) ==
    [settings |-> IF us.set THEN Json(us) ELSE [kind |-> "null", value |-> NoSettings],
     reflections |-> Json(rs),
     streak |-> Json(st)]

\* saveSettings and saveReflections (second revision): the localStorage part
SaveSettings(st, newSettings) == [st EXCEPT !.settings = Json(newSettings)]
SaveReflections(st, newReflections) == [st EXCEPT !.reflections = Json(newReflections)]

\* the settings of a user who finished onboarding on day 1
OnboardedSettings(v) ==
    IF v = "v1" THEN V1NewSettings(1, 3, 1000)
    ELSE [V2NewSettings(1) EXCEPT !.depositAmount = 1000]

(***************************************************************************)
(* The AI Gateway on its own: one action per exported function, its        *)
(* arguments and the model's answer drawn from the sets above.             *)
(***************************************************************************)
NoCall == [fn |-> "none"]
NoDash == [set |-> FALSE]
NoGw == [fn |-> "none"]

IdleApp ==
    /\ ver = "v2"
    /\ today = 1
    /\ view = "DASHBOARD"
    /\ reflections = <<>>
    /\ streak = 0
    /\ memoDay = 1
    /\ m = [step |-> 0]
    /\ n = [step |-> 0]
    /\ call = NoCall
    /\ boot = "ready"
    /\ settings = OnboardedSettings("v2")
    /\ setupData = NoSettings
    /\ store = SaveSettings(NoStore, settings)
    /\ dash = NoDash

appVars == <<ver, today, view, reflections, streak, memoDay, m, n, call, chat,
            boot, settings, setupData, store, dash>>

InitGateway ==
    /\ IdleApp
    /\ gw = NoGw
    /\ chat = [open |-> FALSE]

GwCompareGoalRecall ==
    \E u \in RecallTexts, g \in GoalTexts, a \in Answers(MatchObjs, NoMatch), rev \in {1, 2} :
        /\ gw' = [fn |-> "compareGoalRecall", rev |-> rev, input |-> u, goal |-> g, answer |-> a,
                  result |-> IF rev = 1 THEN CompareGoalRecallV1(u, g, a.kind, a.obj)
                             ELSE CompareGoalRecall(u, g, a.kind, a.obj)]
        /\ UNCHANGED appVars

GwEvaluateTask ==
    \E t \in TaskTexts, first \in BOOLEAN, a \in Answers(EvalObjs, NoEval), rev \in {1, 2} :
        /\ gw' = [fn |-> "evaluateTask", rev |-> rev, task |-> t, isFirstTask |-> first, answer |-> a,
                  result |-> IF rev = 1 THEN EvaluateTaskV1(t, a.kind, a.obj)
                             ELSE EvaluateTask(t, first, a.kind, a.obj)]
        /\ UNCHANGED appVars

GwBreakDownTaskIntoSteps ==
    \E t \in TaskTexts, k \in ResponseKinds, steps \in StepLists :
        /\ (k \notin {"json", "fenced"}) => steps = <<>>
        /\ gw' = [fn |-> "breakDownTaskIntoSteps", rev |-> 2, task |-> t,
                  answer |-> [kind |-> k, steps |-> steps],
                  result |-> BreakDownTaskIntoSteps(t, k, steps)]
        /\ UNCHANGED appVars

GwAnalyzeSentiment ==
    \E a \in Answers(SentimentObjs, NoSentiment), rev \in {1, 2} :
        /\ gw' = [fn |-> "analyzeSentiment", rev |-> rev, answer |-> a,
                  result |-> IF rev = 1 THEN AnalyzeSentimentV1(a.kind, a.obj)
                             ELSE AnalyzeSentiment(a.kind, a.obj)]
        /\ UNCHANGED appVars

GwAnalyzeFailureReason ==
    \E a \in Answers(FailureObjs, NoFailure), rev \in {1, 2} :
        /\ gw' = [fn |-> "analyzeFailureReason", rev |-> rev, answer |-> a,
                  result |-> IF rev = 1 THEN AnalyzeFailureReasonV1(a.kind, a.obj)
                             ELSE AnalyzeFailureReason(a.kind, a.obj)]
        /\ UNCHANGED appVars

GwEvaluateAlphaTask ==
    \E a \in Answers(AlphaObjs, NoAlpha), rev \in {1, 2} :
        /\ gw' = [fn |-> "evaluateAlphaTask", rev |-> rev, answer |-> a,
                  result |-> IF rev = 1 THEN EvaluateAlphaTaskV1(a.kind, a.obj)
                             ELSE EvaluateAlphaTask(a.kind, a.obj)]
        /\ UNCHANGED appVars

GwGenerateNightSummary ==
    \E shape \in ExtrasShapes, a \in TextAnswers, rev \in {1, 2} :
        /\ gw' = [fn |-> "generateNightSummary", rev |-> rev, extras |-> shape, answer |-> a,
                  result |-> IF rev = 1 THEN GenerateNightSummaryV1(shape, a.kind, a.text)
                             ELSE GenerateNightSummary(shape, a.kind, a.text)]
        /\ UNCHANGED appVars

GwGenerateAITwinResponse ==
    \E a \in TextAnswers :
        /\ gw' = [fn |-> "generateAITwinResponse", rev |-> 2, answer |-> a,
                  result |-> GenerateAITwinResponse(a.kind, a.text)]
        /\ UNCHANGED appVars

NextGateway ==
    \/ GwCompareGoalRecall
    \/ GwEvaluateTask
    \/ GwBreakDownTaskIntoSteps
    \/ GwAnalyzeSentiment
    \/ GwAnalyzeFailureReason
    \/ GwEvaluateAlphaTask
    \/ GwGenerateNightSummary
    \/ GwGenerateAITwinResponse

SpecGateway == InitGateway /\ [][NextGateway]_vars

(***************************************************************************)
(* App (second revision, App.tsx 2841-3098): the reflections list and the  *)
(* handlers that write it.  A DailyTask is [type, priority, completed]; a  *)
(* Reflection is [date, morning, night, dailyTasks, score, pendingScore],  *)
(* where morning.set / night.set say whether that half has been written.  *)
(***************************************************************************)
BaseScore == 10
TaskPoints == 5
ExtraPoints == 5
WastedDivisor == 10
RecallPenalty == 5

NoMorning == [set |-> FALSE, freeMemo |-> ""]
NoNight == [set |-> FALSE, extras |-> <<>>, wastedTimeLogs |-> <<>>, wastedTimeMinutes |-> 0,
            freeMemo |-> ""]

\* reflections.find(r => r.date === todayStr): its index, 0 when there is none
FindIndex(rs, d) ==
    IF \E i \in 1..Len(rs) : rs[i].date = d
    THEN CHOOSE i \in 1..Len(rs) : rs[i].date = d /\ \A j \in 1..(i - 1) : rs[j].date # d
    ELSE 0

\* reflections.filter(r => r.date !== todayStr)
Others(rs, d) == SelectSeq(rs, LAMBDA r : r.date # d)

\* updatedTasks.filter(t => t.completed).length
CompletedCount(tasks) == Cardinality({ i \in 1..Len(tasks) : tasks[i].completed })

\* a total that counts the first entry only
SumMinutesOfFirst(logs) == IF logs = <<>> THEN 0 ELSE Head(logs)

RECURSIVE SumMinutes(_)
\* wastedTimeLogs.reduce((acc, log) => acc + log.minutes, 0)
SumMinutes(logs) == IF logs = <<>> THEN 0 ELSE Head(logs) + SumMinutes(Tail(logs))

\* a save that drops the recall penalty
MorningOnSaveNoPenalty(rs, d, freeMemo, tasks, penalty) ==
    Append(Others(rs, d),
           [date |-> d, morning |-> [set |-> TRUE, freeMemo |-> freeMemo], night |-> NoNight,
            dailyTasks |-> tasks, score |-> 0, pendingScore |-> 0])

\* MorningConversationView's onSave (App.tsx 3019-3026), without the setView
MorningOnSave(rs, d, freeMemo, tasks, penalty) ==
    LET i == FindIndex(rs, d)
        pending == IF penalty # 0 THEN 0 - penalty ELSE 0
        newReflection ==
            IF i # 0
            THEN [rs[i] EXCEPT !.morning = [set |-> TRUE, freeMemo |-> freeMemo],
                               !.dailyTasks = tasks, !.pendingScore = pending]
            ELSE [date |-> d, morning |-> [set |-> TRUE, freeMemo |-> freeMemo], night |-> NoNight,
                  dailyTasks |-> tasks, score |-> 0, pendingScore |-> pending]
    IN Append(Others(rs, d), newReflection)

\* a score that subtracts the wasted minutes unscaled
NightScoreUnscaled(updatedTasks, data, pendingScore) ==
    BaseScore + CompletedCount(updatedTasks) * TaskPoints + Len(data.extras) * ExtraPoints
        - data.wastedTimeMinutes + pendingScore

\* the score computed by NightReflectionView's onSave (App.tsx 3037-3046);
\* data.wastedTime is always "" in this revision, so its legacy branch gives 0
NightScore(updatedTasks, data, pendingScore) ==
    LET taskScore == CompletedCount(updatedTasks) * TaskPoints
        extraScore == Len(data.extras) * ExtraPoints
        baseScore == BaseScore + taskScore + extraScore
        wastedPenalty == IF data.wastedTimeMinutes # 0
                         THEN data.wastedTimeMinutes \div WastedDivisor ELSE 0
        score == baseScore - wastedPenalty
    IN IF pendingScore # 0 THEN score + pendingScore ELSE score

\* a night save that keeps the entry it replaces
NightOnSaveNoFilter(rs, d, data, updatedTasks) ==
    LET i == FindIndex(rs, d) IN
    Append(rs, [rs[i] EXCEPT !.night = data, !.dailyTasks = updatedTasks,
                             !.score = NightScore(updatedTasks, data, rs[i].pendingScore),
                             !.pendingScore = 0])

\* a night save that leaves pendingScore as it was
NightOnSaveKeepPending(rs, d, data, updatedTasks) ==
    LET i == FindIndex(rs, d) IN
    Append(Others(rs, d),
           [rs[i] EXCEPT !.night = data, !.dailyTasks = updatedTasks,
                         !.score = NightScore(updatedTasks, data, rs[i].pendingScore)])

\* NightReflectionView's onSave (App.tsx 3035-3054), without the setView
NightOnSave(rs, d, data, updatedTasks) ==
    LET i == FindIndex(rs, d)
        updated == [rs[i] EXCEPT !.night = data, !.dailyTasks = updatedTasks,
                                 !.score = NightScore(updatedTasks, data, rs[i].pendingScore),
                                 !.pendingScore = 0]
    IN Append(Others(rs, d), updated)

\* DashboardView's onUpdateTasks (App.tsx 3006-3011)
OnUpdateTasks(rs, d, tasks) ==
    LET i == FindIndex(rs, d) IN
    IF i = 0 THEN rs
    ELSE Append(Others(rs, d), [rs[i] EXCEPT !.dailyTasks = tasks])

\* newTasks[index].completed = !newTasks[index].completed
ToggleCompleted(tasks, index) == [tasks EXCEPT ![index].completed = ~@]

HasMorning(rs, d) == FindIndex(rs, d) # 0 /\ rs[FindIndex(rs, d)].morning.set
HasNight(rs, d) == FindIndex(rs, d) # 0 /\ rs[FindIndex(rs, d)].night.set

(***************************************************************************)
(* MorningConversationView (second revision, App.tsx 2305-2450).  While an *)
(* AI Gateway call is pending the LoadingOverlay covers the screen, so     *)
(* every user action requires call = NoCall.                               *)
(***************************************************************************)
MaxSteps == 3

\* settings.threeWeekGoal, and what the user may type when asked to recall it
Goal == <<"a", "b", "c", "d", "e", "f">>
AppRecallTexts == { <<"a", "b", "c", "d", "e">>, <<"x", "y", "z">> }
TaskInputs == {"taskA", "taskB"}

\* JavaScript truthiness of a string | null | undefined
Truthy(x) == x \notin {"null", "", "undefined"}

NoEvaluation == [task |-> "", judgment |-> "none"]
MClosed == [step |-> 0]
MorningInit ==
    [step |-> 1, goalRecallInput |-> <<>>, taskInput |-> "", aiResponse |-> "null",
     taskSteps |-> <<>>, goalCheckResult |-> "null", tempTasks |-> <<>>, isFirstTask |-> TRUE,
     freeMemo |-> "", penalty |-> 0,
     evaluation |-> NoEvaluation]  \* the task and judgment of the evaluation on display

Loading == call # NoCall
Stuck == [fn |-> "rejected"]

InMorningV2 == ver = "v2" /\ view = "MORNING_CONVERSATION" /\ ~Loading

\* the same list with the steps of the breakdown marked like tasks of the user
WithNewTasksStepsMedium(tempTasks, isFirstTask, taskSteps) ==
    LET mainTask == [text |-> "task", type |-> IF isFirstTask THEN "main" ELSE "sub",
                     priority |-> IF isFirstTask THEN "high" ELSE "medium", completed |-> FALSE]
        kept == SelectSeq(taskSteps, LAMBDA st : st # "")
        subTasks == [i \in 1..Len(kept) |->
                        [text |-> "step", type |-> "sub", priority |-> "medium", completed |-> FALSE]]
    IN tempTasks \o <<mainTask>> \o subTasks

\* mainTask followed by the non-empty steps as subTasks (App.tsx 2352-2354);
\* of a task's text the model keeps where it came from: "task" is the user's
\* taskInput, "step" a step of the breakdown
WithNewTasks(tempTasks, isFirstTask, taskSteps) ==
    LET mainTask == [text |-> "task", type |-> IF isFirstTask THEN "main" ELSE "sub",
                     priority |-> IF isFirstTask THEN "high" ELSE "medium", completed |-> FALSE]
        kept == SelectSeq(taskSteps, LAMBDA st : st # "")
        subTasks == [i \in 1..Len(kept) |->
                        [text |-> "step", type |-> "sub", priority |-> "low", completed |-> FALSE]]
    IN tempTasks \o <<mainTask>> \o subTasks

\* DashboardView: the "plan the morning" button
OpenMorning ==
    /\ ver = "v2" /\ view = "DASHBOARD" /\ ~Loading
    /\ ~HasMorning(reflections, today)
    /\ view' = "MORNING_CONVERSATION"
    /\ m' = MorningInit
    /\ UNCHANGED <<dash, boot, settings, setupData, store, ver, today, reflections, streak, memoDay, n, call, gw, chat>>

\* Header onBack
MorningBack ==
    /\ InMorningV2
    /\ view' = "DASHBOARD"
    /\ m' = MClosed
    /\ UNCHANGED <<dash, boot, settings, setupData, store, ver, today, reflections, streak, memoDay, n, call, gw, chat>>

SetGoalRecallInput ==
    /\ InMorningV2 /\ m.step = 1 /\ m.goalCheckResult = "null"
    /\ \E t \in AppRecallTexts \cup {<<>>} :
        /\ t # m.goalRecallInput
        /\ m' = [m EXCEPT !.goalRecallInput = t]
    /\ UNCHANGED <<dash, boot, settings, setupData, store, ver, today, view, reflections, streak, memoDay, n, call, gw, chat>>

HandleGoalRecallSubmit ==
    /\ InMorningV2 /\ m.step = 1 /\ m.goalCheckResult = "null"
    /\ m.goalRecallInput # <<>>
    /\ call' = [fn |-> "compareGoalRecall", input |-> m.goalRecallInput, goal |-> Goal]
    /\ UNCHANGED <<dash, boot, settings, setupData, store, ver, today, view, reflections, streak, memoDay, m, n, gw, chat>>

GoalRecallResolvesWith(answers) ==
    /\ ver = "v2" /\ call.fn = "compareGoalRecall"
    /\ \E a \in answers :
        LET r == CompareGoalRecall(call.input, call.goal, a.kind, a.obj) IN
        IF r.status = "rejected"
        THEN call' = Stuck /\ m' = m
        ELSE /\ call' = NoCall
             /\ m' = [m EXCEPT !.goalCheckResult = IF r.value THEN "match" ELSE "mismatch",
                               !.penalty = IF ~r.value THEN RecallPenalty ELSE @]
    /\ UNCHANGED <<dash, boot, settings, setupData, store, ver, today, view, reflections, streak, memoDay, n, gw, chat>>

GoalRecallResolves == GoalRecallResolvesWith(Answers(MatchObjs, NoMatch))

HandleProceedToTask ==
    /\ InMorningV2 /\ m.step = 1 /\ m.goalCheckResult # "null"
    /\ m' = [m EXCEPT !.step = 2]
    /\ UNCHANGED <<dash, boot, settings, setupData, store, ver, today, view, reflections, streak, memoDay, n, call, gw, chat>>

SetTaskInput ==
    /\ InMorningV2 /\ m.step = 2
    /\ \E t \in TaskInputs \cup {""} :
        /\ t # m.taskInput
        /\ m' = [m EXCEPT !.taskInput = t]
    /\ UNCHANGED <<dash, boot, settings, setupData, store, ver, today, view, reflections, streak, memoDay, n, call, gw, chat>>

HandleTaskEvaluate ==
    /\ InMorningV2 /\ m.step = 2 /\ ~Truthy(m.aiResponse)
    /\ m.taskInput # ""
    /\ call' = [fn |-> "evaluateTask", task |-> m.taskInput, isFirstTask |-> m.isFirstTask]
    /\ UNCHANGED <<dash, boot, settings, setupData, store, ver, today, view, reflections, streak, memoDay, m, n, gw, chat>>

TaskEvaluateResolvesWith(answers) ==
    /\ ver = "v2" /\ call.fn = "evaluateTask"
    /\ \E a \in answers :
        LET r == EvaluateTask(call.task, call.isFirstTask, a.kind, a.obj) IN
        IF r.status = "rejected"
        THEN call' = Stuck /\ m' = m
        ELSE /\ call' = NoCall
             /\ m' = [m EXCEPT !.aiResponse = r.value.response,
                               !.evaluation = [task |-> call.task, judgment |-> r.value.judgment]]
    /\ UNCHANGED <<dash, boot, settings, setupData, store, ver, today, view, reflections, streak, memoDay, n, gw, chat>>

TaskEvaluateResolves == TaskEvaluateResolvesWith(Answers(EvalObjs, NoEval))

\* the "revise" button: setAiResponse(null)
ReviseTask ==
    /\ InMorningV2 /\ m.step = 2 /\ Truthy(m.aiResponse)
    /\ m' = [m EXCEPT !.aiResponse = "null", !.evaluation = NoEvaluation]
    /\ UNCHANGED <<dash, boot, settings, setupData, store, ver, today, view, reflections, streak, memoDay, n, call, gw, chat>>

HandleConfirmTask ==
    /\ InMorningV2 /\ m.step = 2 /\ Truthy(m.aiResponse)
    /\ call' = [fn |-> "breakDownTaskIntoSteps", task |-> m.taskInput]
    /\ UNCHANGED <<dash, boot, settings, setupData, store, ver, today, view, reflections, streak, memoDay, m, n, gw, chat>>

ConfirmTaskResolvesWith(kinds) ==
    /\ ver = "v2" /\ call.fn = "breakDownTaskIntoSteps"
    /\ \E k \in kinds, steps \in StepLists :
        /\ (k \notin {"json", "fenced"}) => steps = <<>>
        /\ LET r == BreakDownTaskIntoSteps(call.task, k, steps) IN
           IF r.status = "rejected"
           THEN call' = Stuck /\ m' = m
           ELSE /\ call' = NoCall
                /\ m' = [m EXCEPT !.taskSteps = r.value, !.step = 4]
    /\ UNCHANGED <<dash, boot, settings, setupData, store, ver, today, view, reflections, streak, memoDay, n, gw, chat>>

ConfirmTaskResolves == ConfirmTaskResolvesWith(ResponseKinds)

EditTaskStep ==
    /\ InMorningV2 /\ m.step = 4
    /\ \E index \in 1..Len(m.taskSteps), t \in {"step", ""} :
        /\ t # m.taskSteps[index]
        /\ m' = [m EXCEPT !.taskSteps[index] = t]
    /\ UNCHANGED <<dash, boot, settings, setupData, store, ver, today, view, reflections, streak, memoDay, n, call, gw, chat>>

DeleteTaskStep ==
    /\ InMorningV2 /\ m.step = 4
    /\ \E index \in 1..Len(m.taskSteps) :
        m' = [m EXCEPT !.taskSteps =
                 SubSeq(m.taskSteps, 1, index - 1) \o SubSeq(m.taskSteps, index + 1, Len(m.taskSteps))]
    /\ UNCHANGED <<dash, boot, settings, setupData, store, ver, today, view, reflections, streak, memoDay, n, call, gw, chat>>

AddTaskStep ==
    /\ InMorningV2 /\ m.step = 4
    /\ Len(m.taskSteps) < MaxSteps
    /\ m' = [m EXCEPT !.taskSteps = Append(@, "")]
    /\ UNCHANGED <<dash, boot, settings, setupData, store, ver, today, view, reflections, streak, memoDay, n, call, gw, chat>>

HandleAddTaskToTemp ==
    /\ InMorningV2 /\ m.step = 4
    /\ Len(WithNewTasks(m.tempTasks, m.isFirstTask, m.taskSteps)) < MaxDailyTasks
    /\ m' = [m EXCEPT !.tempTasks = WithNewTasks(m.tempTasks, m.isFirstTask, m.taskSteps),
                      !.taskInput = "", !.aiResponse = "null", !.taskSteps = <<>>,
                      !.isFirstTask = FALSE, !.step = 2, !.evaluation = NoEvaluation]
    /\ UNCHANGED <<dash, boot, settings, setupData, store, ver, today, view, reflections, streak, memoDay, n, call, gw, chat>>

\* a first task is saved with all its steps; MaxDailyTasks bounds the list
\* once further tasks are planned
HandleFinishPlanning ==
    /\ InMorningV2 /\ m.step = 4
    /\ m.isFirstTask \/ Len(WithNewTasks(m.tempTasks, m.isFirstTask, m.taskSteps)) <= MaxDailyTasks
    /\ m' = [m EXCEPT !.tempTasks = WithNewTasks(m.tempTasks, m.isFirstTask, m.taskSteps),
                      !.step = 5]
    /\ UNCHANGED <<dash, boot, settings, setupData, store, ver, today, view, reflections, streak, memoDay, n, call, gw, chat>>

SetFreeMemo ==
    /\ InMorningV2 /\ m.step = 5
    /\ \E t \in {"", "memo"} :
        /\ t # m.freeMemo
        /\ m' = [m EXCEPT !.freeMemo = t]
    /\ UNCHANGED <<dash, boot, settings, setupData, store, ver, today, view, reflections, streak, memoDay, n, call, gw, chat>>

\* handleSaveAll and the onSave it calls; the view unmounts, so isSaving is
\* never read again
HandleSaveAll ==
    /\ InMorningV2 /\ m.step = 5
    /\ reflections' = MorningOnSave(reflections, today, m.freeMemo, m.tempTasks, m.penalty)
    /\ view' = "DASHBOARD"
    /\ m' = MClosed
    /\ store' = SaveReflections(store, reflections')
    /\ UNCHANGED <<dash, boot, settings, setupData, ver, today, streak, memoDay, n, call, gw, chat>>

(***************************************************************************)
(* NightReflectionView (second revision, App.tsx 2452-2661).               *)
(***************************************************************************)
WastedMinuteChoices == {5, 20}

NClosed == [step |-> 0]
NightInit(tasks) ==
    [step |-> 1, localTasks |-> tasks, feelings |-> "", extrasList |-> <<>>,
     failureReason |-> "", aiFailureFeedback |-> "", wastedTimeLogs |-> <<>>]

\* the view is rendered only while today has a Reflection
InNightV2 ==
    /\ ver = "v2" /\ view = "NIGHT_REFLECTION" /\ ~Loading
    /\ FindIndex(reflections, today) # 0

\* uncompletedTasks.length
Uncompleted(tasks) == Len(tasks) - CompletedCount(tasks)

\* a list without its element at index: list.filter((_, i) => i !== index)
RemoveAt(list, index) == SubSeq(list, 1, index - 1) \o SubSeq(list, index + 1, Len(list))

\* DashboardView: the "night reflection" button
OpenNight ==
    /\ ver = "v2" /\ view = "DASHBOARD" /\ ~Loading
    /\ HasMorning(reflections, today) /\ ~HasNight(reflections, today)
    /\ view' = "NIGHT_REFLECTION"
    /\ n' = NightInit(reflections[FindIndex(reflections, today)].dailyTasks)
    /\ UNCHANGED <<dash, boot, settings, setupData, store, ver, today, reflections, streak, memoDay, m, call, gw, chat>>

\* Header onBack
NightBack ==
    /\ InNightV2
    /\ view' = "DASHBOARD"
    /\ n' = NClosed
    /\ UNCHANGED <<dash, boot, settings, setupData, store, ver, today, reflections, streak, memoDay, m, call, gw, chat>>

\* RichTextEditor.handleInput hands the editor's innerHTML to onChange: the
\* markup of a typed note, "" for an editor never typed in, and for an editor
\* whose text was deleted again either "" or the line break the browser
\* leaves behind
EditorHtml == {"", "<br>", "note"}
\* the text the user reads in the editor
EditorText(html) == IF html = "<br>" THEN "" ELSE html

\* the note editor of steps 1 and 5
SetFeelings ==
    /\ InNightV2 /\ n.step \in {1, 5}
    /\ \E t \in EditorHtml :
        /\ t # n.feelings
        /\ n' = [n EXCEPT !.feelings = t]
    /\ UNCHANGED <<dash, boot, settings, setupData, store, ver, today, view, reflections, streak, memoDay, m, call, gw, chat>>

NightNextFromNote ==
    /\ InNightV2 /\ n.step = 1
    /\ Truthy(n.feelings)
    /\ n' = [n EXCEPT !.step = 2]
    /\ UNCHANGED <<dash, boot, settings, setupData, store, ver, today, view, reflections, streak, memoDay, m, call, gw, chat>>

\* toggleLocalTask: the task objects are the ones of the day's Reflection,
\* so the assignment to .completed shows in reflections as well
ToggleLocalTask ==
    /\ InNightV2 /\ n.step = 2
    /\ Uncompleted(n.localTasks) > 0
    /\ \E index \in 1..Len(n.localTasks) :
        /\ n' = [n EXCEPT !.localTasks = ToggleCompleted(@, index)]
        /\ reflections' = [reflections EXCEPT ![FindIndex(reflections, today)].dailyTasks =
                              ToggleCompleted(@, index)]
    /\ UNCHANGED <<dash, boot, settings, setupData, store, ver, today, view, streak, memoDay, m, call, gw, chat>>

SetFailureReason ==
    /\ InNightV2 /\ n.step = 2
    /\ Uncompleted(n.localTasks) > 0
    /\ \E t \in {"", "reason"} :
        /\ t # n.failureReason
        /\ n' = [n EXCEPT !.failureReason = t]
    /\ UNCHANGED <<dash, boot, settings, setupData, store, ver, today, view, reflections, streak, memoDay, m, call, gw, chat>>

HandleFailureAnalysis ==
    /\ InNightV2 /\ n.step = 2
    /\ Uncompleted(n.localTasks) > 0
    /\ ~Truthy(n.aiFailureFeedback)
    /\ n.failureReason # ""
    /\ call' = [fn |-> "analyzeFailureReason", reason |-> n.failureReason]
    /\ UNCHANGED <<dash, boot, settings, setupData, store, ver, today, view, reflections, streak, memoDay, m, n, gw, chat>>

FailureAnalysisResolves ==
    /\ ver = "v2" /\ call.fn = "analyzeFailureReason"
    /\ \E a \in Answers(FailureObjs, NoFailure) :
        LET r == AnalyzeFailureReason(a.kind, a.obj) IN
        IF r.status = "rejected"
        THEN call' = Stuck /\ n' = n
        ELSE /\ call' = NoCall
             /\ n' = [n EXCEPT !.aiFailureFeedback = r.value.response]
    /\ UNCHANGED <<dash, boot, settings, setupData, store, ver, today, view, reflections, streak, memoDay, m, gw, chat>>

\* step 2's "next": shown when no task is left uncompleted, or once the
\* failure analysis is on display
NightNextFromTasks ==
    /\ InNightV2 /\ n.step = 2
    /\ Uncompleted(n.localTasks) = 0 \/ Truthy(n.aiFailureFeedback)
    /\ n' = [n EXCEPT !.step = 3]
    /\ UNCHANGED <<dash, boot, settings, setupData, store, ver, today, view, reflections, streak, memoDay, m, call, gw, chat>>

HandleAddWastedTimeUpTo(limit) ==
    /\ InNightV2 /\ n.step = 3
    /\ Len(n.wastedTimeLogs) < limit
    /\ \E minutes \in WastedMinuteChoices :
        n' = [n EXCEPT !.wastedTimeLogs = Append(@, minutes)]
    /\ UNCHANGED <<dash, boot, settings, setupData, store, ver, today, view, reflections, streak, memoDay, m, call, gw, chat>>

HandleAddWastedTime == HandleAddWastedTimeUpTo(MaxLogs)

HandleRemoveWastedTime ==
    /\ InNightV2 /\ n.step = 3
    /\ \E index \in 1..Len(n.wastedTimeLogs) :
        n' = [n EXCEPT !.wastedTimeLogs = RemoveAt(@, index)]
    /\ UNCHANGED <<dash, boot, settings, setupData, store, ver, today, view, reflections, streak, memoDay, m, call, gw, chat>>

NightNextFromWasted ==
    /\ InNightV2 /\ n.step = 3
    /\ n' = [n EXCEPT !.step = 4]
    /\ UNCHANGED <<dash, boot, settings, setupData, store, ver, today, view, reflections, streak, memoDay, m, call, gw, chat>>

HandleAddExtra ==
    /\ InNightV2 /\ n.step = 4
    /\ Len(n.extrasList) < MaxExtras
    /\ n' = [n EXCEPT !.extrasList = Append(@, "extra")]
    /\ UNCHANGED <<dash, boot, settings, setupData, store, ver, today, view, reflections, streak, memoDay, m, call, gw, chat>>

HandleRemoveExtra ==
    /\ InNightV2 /\ n.step = 4
    /\ \E index \in 1..Len(n.extrasList) :
        n' = [n EXCEPT !.extrasList = RemoveAt(@, index)]
    /\ UNCHANGED <<dash, boot, settings, setupData, store, ver, today, view, reflections, streak, memoDay, m, call, gw, chat>>

NightNextFromExtras ==
    /\ InNightV2 /\ n.step = 4
    /\ n' = [n EXCEPT !.step = 5]
    /\ UNCHANGED <<dash, boot, settings, setupData, store, ver, today, view, reflections, streak, memoDay, m, call, gw, chat>>

\* the "back" buttons of steps 3, 4 and 5
NightStepBack ==
    /\ InNightV2 /\ n.step \in {3, 4, 5}
    /\ n' = [n EXCEPT !.step = @ - 1]
    /\ UNCHANGED <<dash, boot, settings, setupData, store, ver, today, view, reflections, streak, memoDay, m, call, gw, chat>>

\* handleFinish and the onSave it calls
HandleFinish ==
    /\ InNightV2 /\ n.step = 5
    /\ LET data == [set |-> TRUE, extras |-> n.extrasList, wastedTimeLogs |-> n.wastedTimeLogs,
                    wastedTimeMinutes |-> SumMinutes(n.wastedTimeLogs), freeMemo |-> n.feelings]
       IN reflections' = NightOnSave(reflections, today, data, n.localTasks)
    /\ view' = "DASHBOARD"
    /\ n' = NClosed
    /\ store' = SaveReflections(store, reflections')
    /\ UNCHANGED <<dash, boot, settings, setupData, ver, today, streak, memoDay, m, call, gw, chat>>

(***************************************************************************)
(* DashboardView (second revision) and the calendar.                       *)
(***************************************************************************)
\* toggleTaskCompletion (App.tsx 2142-2147)
ToggleTaskCompletion ==
    /\ ver = "v2" /\ view = "DASHBOARD" /\ ~Loading
    /\ FindIndex(reflections, today) # 0
    /\ LET tasks == reflections[FindIndex(reflections, today)].dailyTasks IN
       \E index \in 1..Len(tasks) :
           reflections' = OnUpdateTasks(reflections, today, ToggleCompleted(tasks, index))
    /\ store' = SaveReflections(store, reflections')
    /\ UNCHANGED <<dash, boot, settings, setupData, ver, today, view, streak, memoDay, m, n, call, gw, chat>>

\* midnight passes: the second revision reads the date when App renders (any
\* state change renders it), the first revision whenever a handler runs
AdvanceDay ==
    /\ ~Loading
    /\ today < MaxDay
    /\ today' = today + 1
    /\ UNCHANGED <<dash, boot, settings, setupData, store, ver, view, reflections, streak, memoDay, m, n, call, gw, chat>>

(***************************************************************************)
(* App (first revision, App.tsx 85-272).  A DailyTask is [text, completed] *)
(* with text "task" or "alpha" (a "+α" mission); a Reflection is           *)
(* [date, morning, night, dailyTasks, score].  todayReflection is a memo   *)
(* on [reflections]: it is the entry of memoDay.                           *)
(***************************************************************************)
V1NoNight == [set |-> FALSE, feelings |-> "undefined", wastedTime |-> "undefined",
              extras |-> "undefined"]

\* handleFinishMorningConversation (App.tsx 158-174), without the setView
HandleFinishMorningConversation(rs, d, tasks, score) ==
    LET existingIndex == FindIndex(rs, d) IN
    IF existingIndex # 0
    THEN [rs EXCEPT ![existingIndex] =
             [@ EXCEPT !.morning = [set |-> TRUE], !.dailyTasks = tasks, !.score = score]]
    ELSE Append(rs, [date |-> d, morning |-> [set |-> TRUE], night |-> V1NoNight,
                     dailyTasks |-> tasks, score |-> score])

\* handleSaveNightReflection (App.tsx 176-192): the reflections it sets
HandleSaveNightReflection(rs, d, data, tasks, score) ==
    LET existingIndex == FindIndex(rs, d) IN
    IF existingIndex # 0
    THEN [rs EXCEPT ![existingIndex] =
             [@ EXCEPT !.night = data, !.score = @ + score, !.dailyTasks = tasks]]
    ELSE rs

\* handleUpdateTasks (App.tsx 194-198)
HandleUpdateTasks(rs, d, tasks) ==
    [i \in 1..Len(rs) |-> IF rs[i].date = d THEN [rs[i] EXCEPT !.dailyTasks = tasks] ELSE rs[i]]

\* todayReflection and yesterdayReflection: indexes into reflections, 0 for undefined
TodayReflection == FindIndex(reflections, memoDay)
YesterdayReflection == FindIndex(reflections, memoDay - 1)

(***************************************************************************)
(* MorningConversationView (first revision, App.tsx 697-930).  Its effect  *)
(* runConversation runs after each render; the steps it passes through     *)
(* without awaiting anything are folded into the handler that caused them. *)
(* isAwaitingResponse is call # NoCall.                                    *)
(***************************************************************************)
LongTermPoints == 10
QuarterlyPoints == 5
StickPenalty == 5

QuarterGoal == <<"x", "y">>

V1MorningInit ==
    [conversationStep |-> "awaiting_long_term", collectedTasks |-> <<>>, score |-> 0,
     pendingTask |-> "null", showTaskButtons |-> FALSE, showReconsiderButtons |-> FALSE,
     showFinishButton |-> FALSE,
     evaluation |-> NoEvaluation]  \* the task and judgment of the last evaluation

InMorningV1 == ver = "v1" /\ view = "MORNING_CONVERSATION"
ShowInputV1 == ~m.showTaskButtons /\ ~m.showReconsiderButtons /\ ~m.showFinishButton

\* DashboardView: the "start the morning reflection" button
V1OpenMorning ==
    /\ ver = "v1" /\ view = "DASHBOARD"
    /\ IF TodayReflection = 0 THEN TRUE ELSE ~reflections[TodayReflection].morning.set
    /\ view' = "MORNING_CONVERSATION"
    /\ m' = V1MorningInit
    /\ UNCHANGED <<dash, boot, settings, setupData, store, ver, today, reflections, streak, memoDay, n, call, gw, chat>>

\* onClose; a pending call's continuation then finds the view unmounted
V1MorningClose ==
    /\ InMorningV1
    /\ view' = "DASHBOARD"
    /\ m' = MClosed
    /\ call' = NoCall
    /\ UNCHANGED <<dash, boot, settings, setupData, store, ver, today, reflections, streak, memoDay, n, gw, chat>>

\* handleUserSubmit at awaiting_long_term and awaiting_quarterly
V1SubmitRecall ==
    /\ InMorningV1 /\ ~Loading /\ ShowInputV1
    /\ m.conversationStep \in {"awaiting_long_term", "awaiting_quarterly"}
    /\ \E currentInput \in AppRecallTexts :
        call' = [fn |-> "compareGoalRecall", input |-> currentInput,
                 goal |-> IF m.conversationStep = "awaiting_long_term" THEN Goal ELSE QuarterGoal]
    /\ UNCHANGED <<dash, boot, settings, setupData, store, ver, today, view, reflections, streak, memoDay, m, n, gw, chat>>

V1RecallResolvesWith(answers) ==
    /\ ver = "v1" /\ view = "MORNING_CONVERSATION" /\ call.fn = "compareGoalRecall"
    /\ \E a \in answers :
        LET r == CompareGoalRecallV1(call.input, call.goal, a.kind, a.obj)
            points == IF m.conversationStep = "awaiting_long_term"
                      THEN LongTermPoints ELSE QuarterlyPoints
            scored == [m EXCEPT !.score = IF r.value THEN @ + points ELSE @ - points]
        IN IF r.status = "rejected"
           THEN call' = Stuck /\ m' = m
           ELSE IF m.conversationStep = "awaiting_long_term"
           THEN /\ m' = [scored EXCEPT !.conversationStep = "awaiting_quarterly"]
                /\ call' = NoCall
           ELSE IF (IF YesterdayReflection = 0 THEN FALSE
                    ELSE reflections[YesterdayReflection].night.set)
           THEN /\ m' = [scored EXCEPT !.conversationStep = "post_quarterly"]
                /\ call' = [fn |-> "summarizeNightReflection"]
           ELSE /\ m' = [scored EXCEPT !.conversationStep = "awaiting_tasks"]
                /\ call' = NoCall
    /\ UNCHANGED <<dash, boot, settings, setupData, store, ver, today, view, reflections, streak, memoDay, n, gw, chat>>

V1RecallResolves == V1RecallResolvesWith(Answers(MatchObjs, NoMatch))

\* runConversation at post_quarterly, after summarizeNightReflection
V1SummarizeResolvesWith(answers) ==
    /\ ver = "v1" /\ view = "MORNING_CONVERSATION" /\ call.fn = "summarizeNightReflection"
    /\ \E a \in answers :
        LET r == SummarizeNightReflectionV1(a.kind, a.text) IN
        IF r.status = "rejected"
        THEN call' = Stuck /\ m' = m
        ELSE call' = NoCall /\ m' = [m EXCEPT !.conversationStep = "awaiting_tasks"]
    /\ UNCHANGED <<dash, boot, settings, setupData, store, ver, today, view, reflections, streak, memoDay, n, gw, chat>>

V1SummarizeResolves == V1SummarizeResolvesWith(TextAnswers)

\* handleUserSubmit at awaiting_tasks
V1SubmitTask ==
    /\ InMorningV1 /\ ~Loading /\ ShowInputV1
    /\ m.conversationStep = "awaiting_tasks"
    /\ \E currentInput \in TaskInputs :
        call' = [fn |-> "evaluateTask", task |-> currentInput]
    /\ UNCHANGED <<dash, boot, settings, setupData, store, ver, today, view, reflections, streak, memoDay, m, n, gw, chat>>

V1TaskResolvesWith(answers) ==
    /\ ver = "v1" /\ view = "MORNING_CONVERSATION" /\ call.fn = "evaluateTask"
    /\ \E a \in answers :
        LET r == EvaluateTaskV1(call.task, a.kind, a.obj) IN
        IF r.status = "rejected"
        THEN call' = Stuck /\ m' = m
        ELSE /\ call' = NoCall
             /\ m' = IF r.value.judgment = "appropriate"
                     THEN [m EXCEPT !.collectedTasks = Append(@, call.task),
                                    !.showTaskButtons = TRUE,
                                    !.evaluation = [task |-> call.task, judgment |-> r.value.judgment]]
                     ELSE [m EXCEPT !.pendingTask = call.task,
                                    !.showReconsiderButtons = TRUE,
                                    !.evaluation = [task |-> call.task, judgment |-> r.value.judgment]]
    /\ UNCHANGED <<dash, boot, settings, setupData, store, ver, today, view, reflections, streak, memoDay, n, gw, chat>>

V1TaskResolves == V1TaskResolvesWith(Answers(EvalObjs, NoEval))

\* handleTaskOption('more')
V1HandleTaskOptionMore ==
    /\ InMorningV1 /\ m.showTaskButtons
    /\ Len(m.collectedTasks) < MaxTasks
    /\ m' = [m EXCEPT !.showTaskButtons = FALSE, !.evaluation = NoEvaluation]
    /\ UNCHANGED <<dash, boot, settings, setupData, store, ver, today, view, reflections, streak, memoDay, n, call, gw, chat>>

\* handleTaskOption('done')
V1HandleTaskOptionDone ==
    /\ InMorningV1 /\ m.showTaskButtons
    /\ m' = [m EXCEPT !.showTaskButtons = FALSE,
                      !.showFinishButton = Len(m.collectedTasks) # 0,
                      !.evaluation = NoEvaluation]
    /\ UNCHANGED <<dash, boot, settings, setupData, store, ver, today, view, reflections, streak, memoDay, n, call, gw, chat>>

\* handleTaskDecision('reconsider')
V1HandleTaskDecisionReconsider ==
    /\ InMorningV1 /\ m.showReconsiderButtons
    /\ m' = [m EXCEPT !.showReconsiderButtons = FALSE, !.pendingTask = "null",
                      !.evaluation = NoEvaluation]
    /\ UNCHANGED <<dash, boot, settings, setupData, store, ver, today, view, reflections, streak, memoDay, n, call, gw, chat>>

\* a 'stick' that costs nothing and drops the task
V1HandleTaskDecisionStickDrops ==
    /\ InMorningV1 /\ m.showReconsiderButtons
    /\ m' = [m EXCEPT !.showReconsiderButtons = FALSE, !.pendingTask = "null",
                      !.showTaskButtons = TRUE]
    /\ UNCHANGED <<dash, boot, settings, setupData, store, ver, today, view, reflections, streak, memoDay, n, call, gw, chat>>

\* handleTaskDecision('stick')
V1HandleTaskDecisionStick ==
    /\ InMorningV1 /\ m.showReconsiderButtons
    /\ m' = [m EXCEPT !.showReconsiderButtons = FALSE,
                      !.score = @ - StickPenalty,
                      !.collectedTasks = IF Truthy(m.pendingTask) THEN Append(@, m.pendingTask) ELSE @,
                      !.pendingTask = "null",
                      !.showTaskButtons = TRUE]
    /\ UNCHANGED <<dash, boot, settings, setupData, store, ver, today, view, reflections, streak, memoDay, n, call, gw, chat>>

\* finalTasks of handleFinish: the collected tasks, padded with "+α" missions
FinalTasks(collectedTasks) ==
    LET real == [i \in 1..Len(collectedTasks) |-> [text |-> "task", completed |-> FALSE]]
        alpha == [text |-> "alpha", completed |-> FALSE]
    IN IF Len(collectedTasks) = 1 THEN real \o <<alpha, alpha>>
       ELSE IF Len(collectedTasks) = 2 THEN real \o <<alpha>>
       ELSE real

\* handleFinish and the onFinish it calls
V1HandleFinish ==
    /\ InMorningV1 /\ m.showFinishButton
    /\ reflections' = HandleFinishMorningConversation(reflections, today,
                                                       FinalTasks(m.collectedTasks), m.score)
    /\ memoDay' = today
    /\ view' = "DASHBOARD"
    /\ m' = MClosed
    /\ store' = V1Persist(settings, reflections', streak)
    /\ UNCHANGED <<dash, boot, settings, setupData, ver, today, streak, n, call, gw, chat>>

(***************************************************************************)
(* NightReflectionView (first revision, App.tsx 932-1201).  The effect     *)
(* runConversation runs after every render that changed step; the steps it *)
(* passes through without awaiting anything are folded into the handler    *)
(* that set them.  The chat transcript is not part of the state.           *)
(***************************************************************************)
MaxAlphas == 3
TaskDonePoints == 10
TaskFailedPoints == 20
AlphaPoints == 10
WastedTimeInputs == {"", "30min"}

\* parseInt(value.replace(/[^0-9]/g, '')) || 0
ParseMinutes(value) == IF value = "30min" THEN 30 ELSE 0

IsAlpha(task) == task.text = "alpha"
RequiredAlphas(initialTasks) == Cardinality({ i \in 1..Len(initialTasks) : IsAlpha(initialTasks[i]) })

V1NightInit(initialTasks) ==
    [step |-> "awaiting_feelings", currentTaskIndex |-> 0, alphaTaskCount |-> 0,
     initialTasks |-> initialTasks, tasks |-> initialTasks, score |-> 0, sentiment |-> "null",
     showButtons |-> "none",
     nightData |-> [feelings |-> "undefined", wastedTime |-> "undefined", extras |-> "undefined"]]

\* runConversation at alpha_review_start
AlphaReview(s) ==
    IF RequiredAlphas(s.initialTasks) > 0 /\ s.alphaTaskCount < RequiredAlphas(s.initialTasks)
    THEN [s EXCEPT !.step = "awaiting_alpha_task"]
    ELSE [s EXCEPT !.step = "awaiting_more_alphas", !.showButtons = "more"]

\* runConversation at task_review_start (index = currentTaskIndex) and at
\* next_task (index = currentTaskIndex + 1); task indexes count from 0
TaskReview(s, index) ==
    LET at == [s EXCEPT !.currentTaskIndex = index] IN
    IF index < Len(s.tasks) /\ ~IsAlpha(s.tasks[index + 1])
    THEN [at EXCEPT !.step = "awaiting_task_status", !.showButtons = "status"]
    ELSE AlphaReview(at)

\* runConversation, from the step a handler has set to the next step that waits
RunConversation(s) ==
    CASE s.step = "task_review_start"     -> TaskReview(s, s.currentTaskIndex)
      [] s.step = "next_task"             -> TaskReview(s, s.currentTaskIndex + 1)
      [] s.step = "alpha_review_start"    -> AlphaReview(s)
      [] s.step = "ask_for_another_alpha" -> [s EXCEPT !.step = "awaiting_alpha_task"]
      [] s.step = "finish"                -> [s EXCEPT !.showButtons = "done"]
      [] OTHER                            -> s

\* the gateway call runConversation awaits at the step, if any
EffectCall(s) ==
    CASE s.step = "post_feelings" -> [fn |-> "analyzeSentiment"]
      [] s.step = "summary_start" -> [fn |-> "generateNightSummary"]
      [] OTHER                    -> NoCall

InNightV1 == ver = "v1" /\ view = "NIGHT_REFLECTION"
ShowInputNightV1 == n.showButtons = "none" /\ n.step # "finish"

\* the tasks of todayReflection after the view mutated one of its own tasks:
\* the view's tasks are the objects of todayReflection.dailyTasks
Aliased(rs, tasks) ==
    IF TodayReflection = 0 THEN rs ELSE [rs EXCEPT ![TodayReflection].dailyTasks = tasks]

\* DashboardView: either "start the night reflection" button
V1OpenNight ==
    /\ ver = "v1" /\ view = "DASHBOARD"
    /\ TodayReflection # 0
    /\ IF TodayReflection = 0 THEN FALSE
       ELSE reflections[TodayReflection].morning.set /\ ~reflections[TodayReflection].night.set
    /\ view' = "NIGHT_REFLECTION"
    /\ n' = V1NightInit(reflections[TodayReflection].dailyTasks)
    /\ UNCHANGED <<dash, boot, settings, setupData, store, ver, today, reflections, streak, memoDay, m, call, gw, chat>>

\* onClose
V1NightClose ==
    /\ InNightV1
    /\ view' = "DASHBOARD"
    /\ n' = NClosed
    /\ call' = NoCall
    /\ UNCHANGED <<dash, boot, settings, setupData, store, ver, today, reflections, streak, memoDay, m, gw, chat>>

\* handleInput at the steps that await nothing
V1HandleInput ==
    /\ InNightV1 /\ ~Loading /\ ShowInputNightV1
    /\ n.step \notin {"awaiting_task_failure_reason", "awaiting_alpha_task", "awaiting_tomorrow_plan"}
    /\ \E value \in {"", "text"}, wasted \in WastedTimeInputs :
        LET s == CASE n.step = "awaiting_feelings" ->
                        [n EXCEPT !.nightData.feelings = value, !.step = "post_feelings"]
                   [] n.step = "awaiting_wasted_time" ->
                        [n EXCEPT !.nightData.wastedTime = wasted,
                                  !.score = @ - (ParseMinutes(wasted) \div 10),
                                  !.step = "task_review_start"]
                   [] n.step = "awaiting_task_experience" -> [n EXCEPT !.step = "next_task"]
                   [] n.step = "awaiting_excuse_followup" -> [n EXCEPT !.step = "next_task"]
                   [] n.step = "awaiting_alpha_justification" ->
                        [n EXCEPT !.score = @ + AlphaPoints, !.step = "awaiting_alpha_experience"]
                   [] n.step = "awaiting_alpha_experience" ->
                        [n EXCEPT !.nightData.extras = "text", !.alphaTaskCount = @ + 1,
                                  !.step = "alpha_review_start"]
                   [] OTHER -> n   \* no branch of handleInput names the step
        IN /\ n' = RunConversation(s)
           /\ call' = EffectCall(s)
    /\ UNCHANGED <<dash, boot, settings, setupData, store, ver, today, view, reflections, streak, memoDay, m, gw, chat>>

\* handleInput at the steps that await the gateway
V1HandleInputAsk ==
    /\ InNightV1 /\ ~Loading /\ ShowInputNightV1
    /\ \/ /\ n.step = "awaiting_task_failure_reason"
          \* the Enter key submits the box whatever it holds, empty or not
          /\ \E value \in {"", "text"} :
                call' = [fn |-> "analyzeFailureReason", reason |-> value]
       \/ n.step = "awaiting_alpha_task" /\ call' = [fn |-> "evaluateAlphaTask"]
       \/ n.step = "awaiting_tomorrow_plan" /\ call' = [fn |-> "evaluateTask", task |-> "plan"]
    /\ UNCHANGED <<dash, boot, settings, setupData, store, ver, today, view, reflections, streak, memoDay, m, n, gw, chat>>

\* runConversation at post_feelings, after analyzeSentiment
V1SentimentResolvesWith(answers) ==
    /\ InNightV1 /\ call.fn = "analyzeSentiment"
    /\ \E a \in answers :
        LET r == AnalyzeSentimentV1(a.kind, a.obj)
            s == [n EXCEPT !.sentiment = r.value,
                           !.step = IF r.value = "negative" THEN "awaiting_wasted_time"
                                    ELSE "task_review_start"]
        IN /\ n' = RunConversation(s)
           /\ call' = EffectCall(s)
    /\ UNCHANGED <<dash, boot, settings, setupData, store, ver, today, view, reflections, streak, memoDay, m, gw, chat>>

V1SentimentResolves == V1SentimentResolvesWith(Answers(SentimentObjs, NoSentiment))

\* handleInput at awaiting_task_failure_reason, after analyzeFailureReason
V1FailureReasonResolvesWith(answers) ==
    /\ InNightV1 /\ call.fn = "analyzeFailureReason"
    /\ \E a \in answers :
        LET r == AnalyzeFailureReasonV1(a.kind, a.obj)
            s == [n EXCEPT !.step = IF r.value.analysis = "excuse"
                                    THEN "awaiting_excuse_followup" ELSE "next_task"]
        IN /\ n' = RunConversation(s)
           /\ call' = EffectCall(s)
    /\ UNCHANGED <<dash, boot, settings, setupData, store, ver, today, view, reflections, streak, memoDay, m, gw, chat>>

V1FailureReasonResolves == V1FailureReasonResolvesWith(Answers(FailureObjs, NoFailure))

\* handleInput at awaiting_alpha_task, after evaluateAlphaTask: destructuring
\* a null result throws and isAwaitingResponse is never lowered
V1AlphaResolvesWith(answers) ==
    /\ InNightV1 /\ call.fn = "evaluateAlphaTask"
    /\ \E a \in answers :
        LET r == EvaluateAlphaTaskV1(a.kind, a.obj) IN
        IF r.value.isNull
        THEN call' = Stuck /\ n' = n
        ELSE /\ call' = NoCall
             /\ n' = IF Truthy(r.value.meaningful) /\ r.value.meaningful # "false"
                     THEN [n EXCEPT !.score = @ + AlphaPoints, !.step = "awaiting_alpha_experience"]
                     ELSE [n EXCEPT !.step = "awaiting_alpha_justification"]
    /\ UNCHANGED <<dash, boot, settings, setupData, store, ver, today, view, reflections, streak, memoDay, m, gw, chat>>

V1AlphaResolves == V1AlphaResolvesWith(Answers(AlphaObjs, NoAlpha))

\* runConversation at summary_start, after generateNightSummary
V1SummaryResolvesWith(answers) ==
    /\ InNightV1 /\ call.fn = "generateNightSummary"
    /\ \E a \in answers :
        LET r == GenerateNightSummaryV1(IF n.nightData.extras = "undefined" THEN "undefined"
                                        ELSE "string", a.kind, a.text)
        IN IF r.status = "rejected"
           THEN call' = Stuck /\ n' = n
           ELSE call' = NoCall /\ n' = [n EXCEPT !.step = "awaiting_tomorrow_plan"]
    /\ UNCHANGED <<dash, boot, settings, setupData, store, ver, today, view, reflections, streak, memoDay, m, gw, chat>>

V1SummaryResolves == V1SummaryResolvesWith(TextAnswers)

\* handleInput at awaiting_tomorrow_plan, after evaluateTask
V1PlanResolvesWith(answers) ==
    /\ InNightV1 /\ call.fn = "evaluateTask"
    /\ \E a \in answers :
        LET r == EvaluateTaskV1(call.task, a.kind, a.obj)
            s == [n EXCEPT !.step = "finish"]
        IN /\ r.status = "resolved"
           /\ n' = RunConversation(s)
           /\ call' = NoCall
    /\ UNCHANGED <<dash, boot, settings, setupData, store, ver, today, view, reflections, streak, memoDay, m, gw, chat>>

V1PlanResolves == V1PlanResolvesWith(Answers(EvalObjs, NoEval))

\* handleButton at awaiting_task_status: the task object is written in place
V1HandleButtonStatus ==
    /\ InNightV1 /\ n.showButtons = "status" /\ n.step = "awaiting_task_status"
    /\ \E value \in {"yes", "no"} :
        LET newTasks == [n.tasks EXCEPT ![n.currentTaskIndex + 1].completed = (value = "yes")]
            cleared == [n EXCEPT !.showButtons = "none", !.tasks = newTasks]
        IN /\ n' = IF value = "yes"
                   THEN [cleared EXCEPT !.score = @ + TaskDonePoints,
                                        !.step = "awaiting_task_experience"]
                   ELSE [cleared EXCEPT !.score = @ - TaskFailedPoints,
                                        !.step = IF n.sentiment = "positive"
                                                 THEN "awaiting_wasted_time_after_failure"
                                                 ELSE "awaiting_task_failure_reason"]
           /\ reflections' = Aliased(reflections, newTasks)
    /\ UNCHANGED <<dash, boot, settings, setupData, store, ver, today, view, streak, memoDay, m, call, gw, chat>>

\* handleButton at awaiting_more_alphas
V1HandleButtonMore ==
    /\ InNightV1 /\ n.showButtons = "more" /\ n.step = "awaiting_more_alphas"
    /\ \E value \in {"yes", "no"} :
        /\ value = "yes" => n.alphaTaskCount < MaxAlphas
        /\ LET s == [n EXCEPT !.showButtons = "none",
                              !.step = IF value = "yes" THEN "ask_for_another_alpha"
                                       ELSE "summary_start"]
           IN /\ n' = RunConversation(s)
              /\ call' = EffectCall(s)
    /\ UNCHANGED <<dash, boot, settings, setupData, store, ver, today, view, reflections, streak, memoDay, m, gw, chat>>

\* handleButton('done') at finish, and the onSave it awaits
V1HandleButtonDone ==
    /\ InNightV1 /\ n.showButtons = "done" /\ n.step = "finish"
    /\ reflections' = HandleSaveNightReflection(reflections, today,
                          [set |-> TRUE, feelings |-> n.nightData.feelings,
                           wastedTime |-> n.nightData.wastedTime, extras |-> n.nightData.extras],
                          n.tasks, n.score)
    /\ streak' = streak + 1
    /\ memoDay' = today
    /\ view' = "DASHBOARD"
    /\ n' = NClosed
    /\ store' = V1Persist(settings, reflections', streak')
    /\ UNCHANGED <<dash, boot, settings, setupData, ver, today, m, call, gw, chat>>

\* DashboardView.handleTaskToggle (first revision): the task object of
\* todayReflection is written in place, then onUpdateTasks maps today's entry
V1HandleTaskToggle ==
    /\ ver = "v1" /\ view = "DASHBOARD"
    /\ TodayReflection # 0
    /\ LET tasks == IF TodayReflection = 0 THEN <<>> ELSE reflections[TodayReflection].dailyTasks IN
       /\ tasks # <<>>
       /\ \E i \in 1..Len(tasks) : ~tasks[i].completed
       /\ \E index \in 1..Len(tasks) :
            LET newTasks == ToggleCompleted(tasks, index) IN
            reflections' = HandleUpdateTasks(Aliased(reflections, newTasks), today, newTasks)
    /\ memoDay' = today
    /\ store' = V1Persist(settings, reflections', streak)
    /\ UNCHANGED <<dash, boot, settings, setupData, ver, today, view, streak, m, n, call, gw, chat>>

\* what localStorage 'reflections' holds when the first revision starts
\* (App.tsx 95-118): nothing, or the reflection of the day before with its night part
StoredReflections ==
    << [date |-> 0, morning |-> [set |-> TRUE],
        night |-> [set |-> TRUE, feelings |-> "text", wastedTime |-> "undefined",
                   extras |-> "undefined"],
        dailyTasks |-> <<>>, score |-> 0] >>

Init ==
    /\ ver \in {"v1", "v2"}
    /\ today = 1
    /\ view = "DASHBOARD"
    /\ reflections \in IF ver = "v1" THEN {<<>>, StoredReflections} ELSE {<<>>}
    /\ streak = Len(reflections)
    /\ boot = "ready"
    /\ settings = OnboardedSettings(ver)
    /\ setupData = NoSettings
    /\ store = IF ver = "v1" THEN V1Persist(settings, reflections, streak)
               ELSE SaveSettings(NoStore, settings)
    /\ dash = NoDash
    /\ memoDay = 1
    /\ m = MClosed
    /\ n = NClosed
    /\ call = NoCall
    /\ gw = NoGw
    /\ chat = [open |-> FALSE]

Next ==
    \/ OpenMorning
    \/ MorningBack
    \/ SetGoalRecallInput
    \/ HandleGoalRecallSubmit
    \/ GoalRecallResolves
    \/ HandleProceedToTask
    \/ SetTaskInput
    \/ HandleTaskEvaluate
    \/ TaskEvaluateResolves
    \/ ReviseTask
    \/ HandleConfirmTask
    \/ ConfirmTaskResolves
    \/ EditTaskStep
    \/ DeleteTaskStep
    \/ AddTaskStep
    \/ HandleAddTaskToTemp
    \/ HandleFinishPlanning
    \/ SetFreeMemo
    \/ HandleSaveAll
    \/ OpenNight
    \/ NightBack
    \/ SetFeelings
    \/ NightNextFromNote
    \/ ToggleLocalTask
    \/ SetFailureReason
    \/ HandleFailureAnalysis
    \/ FailureAnalysisResolves
    \/ NightNextFromTasks
    \/ HandleAddWastedTime
    \/ HandleRemoveWastedTime
    \/ NightNextFromWasted
    \/ HandleAddExtra
    \/ HandleRemoveExtra
    \/ NightNextFromExtras
    \/ NightStepBack
    \/ HandleFinish
    \/ ToggleTaskCompletion
    \/ V1OpenMorning
    \/ V1MorningClose
    \/ V1SubmitRecall
    \/ V1RecallResolves
    \/ V1SummarizeResolves
    \/ V1SubmitTask
    \/ V1TaskResolves
    \/ V1HandleTaskOptionMore
    \/ V1HandleTaskOptionDone
    \/ V1HandleTaskDecisionReconsider
    \/ V1HandleTaskDecisionStick
    \/ V1HandleFinish
    \/ V1OpenNight
    \/ V1NightClose
    \/ V1HandleInput
    \/ V1HandleInputAsk
    \/ V1SentimentResolves
    \/ V1FailureReasonResolves
    \/ V1AlphaResolves
    \/ V1SummaryResolves
    \/ V1PlanResolves
    \/ V1HandleButtonStatus
    \/ V1HandleButtonMore
    \/ V1HandleButtonDone
    \/ V1HandleTaskToggle

Spec == Init /\ [][Next]_vars

(***************************************************************************)
(* App over several days.  The two flow views are reduced to their         *)
(* callback props: an open view may call onSave (onFinish) with any data   *)
(* of the prop's type, or close.                                           *)
(***************************************************************************)
PlannedTaskLists ==
    { WithNewTasks(<<>>, TRUE, <<>>), WithNewTasks(<<>>, TRUE, <<"step">>) }
NightDataChoices ==
    { [set |-> TRUE, extras |-> e, wastedTimeLogs |-> w, wastedTimeMinutes |-> SumMinutes(w),
       freeMemo |-> "note"] : e \in {<<>>, <<"extra">>}, w \in {<<>>, <<20>>} }
V1ScoreChoices == {-15, 15}

\* the task lists that differ from tasks in the completed flags only
CompletionsOf(tasks) ==
    { [i \in 1..Len(tasks) |-> [tasks[i] EXCEPT !.completed = c[i]]] :
        c \in [1..Len(tasks) -> BOOLEAN] }

\* MorningConversationView calls onSave(data, tasks, penalty)
MorningViewSaves ==
    /\ ver = "v2" /\ view = "MORNING_CONVERSATION" /\ ~Loading
    /\ \E tasks \in PlannedTaskLists, penalty \in {0, RecallPenalty} :
        reflections' = MorningOnSave(reflections, today, "", tasks, penalty)
    /\ view' = "DASHBOARD"
    /\ m' = MClosed
    /\ store' = SaveReflections(store, reflections')
    /\ UNCHANGED <<dash, boot, settings, setupData, ver, today, streak, memoDay, n, call, gw, chat>>

\* NightReflectionView calls onSave(data, updatedTasks)
NightViewSaves ==
    /\ InNightV2
    /\ \E data \in NightDataChoices, updatedTasks \in CompletionsOf(n.localTasks) :
        reflections' = NightOnSave(reflections, today, data, updatedTasks)
    /\ view' = "DASHBOARD"
    /\ n' = NClosed
    /\ store' = SaveReflections(store, reflections')
    /\ UNCHANGED <<dash, boot, settings, setupData, ver, today, streak, memoDay, m, call, gw, chat>>

\* MorningConversationView (first revision) calls onFinish(tasks, score)
V1MorningViewFinishes ==
    /\ InMorningV1
    /\ \E k \in 1..MaxTasks, score \in V1ScoreChoices :
        reflections' = HandleFinishMorningConversation(reflections, today,
                           FinalTasks([i \in 1..k |-> "taskA"]), score)
    /\ memoDay' = today
    /\ view' = "DASHBOARD"
    /\ m' = MClosed
    /\ store' = V1Persist(settings, reflections', streak)
    /\ UNCHANGED <<dash, boot, settings, setupData, ver, today, streak, n, call, gw, chat>>

\* NightReflectionView (first revision) calls onSave(data, tasks, score, analysis)
V1NightViewSaves ==
    /\ InNightV1
    /\ \E tasks \in CompletionsOf(n.tasks), score \in V1ScoreChoices :
        reflections' = HandleSaveNightReflection(reflections, today,
                           [set |-> TRUE, feelings |-> "text", wastedTime |-> "undefined",
                            extras |-> "undefined"], tasks, score)
    /\ streak' = streak + 1
    /\ memoDay' = today
    /\ view' = "DASHBOARD"
    /\ n' = NClosed
    /\ store' = V1Persist(settings, reflections', streak')
    /\ UNCHANGED <<dash, boot, settings, setupData, ver, today, m, call, gw, chat>>

NextDays ==
    \/ OpenMorning
    \/ MorningBack
    \/ MorningViewSaves
    \/ OpenNight
    \/ NightBack
    \/ NightViewSaves
    \/ ToggleTaskCompletion
    \/ V1OpenMorning
    \/ V1MorningClose
    \/ V1MorningViewFinishes
    \/ V1OpenNight
    \/ V1NightClose
    \/ V1NightViewSaves
    \/ V1HandleTaskToggle
    \/ AdvanceDay

SpecDays == Init /\ [][NextDays]_vars

(***************************************************************************)
(* The morning flows when every model call throws.  The user is one who    *)
(* goes forward: no back button, no revision, one task.  A pending call    *)
(* is answered (weak fairness); an input the user is offered again and     *)
(* again is given (strong fairness).                                       *)
(***************************************************************************)
Thrown(none) == { [kind |-> "throws", obj |-> none] }

GoalRecallFails == GoalRecallResolvesWith(Thrown(NoMatch))
TaskEvaluateFails == TaskEvaluateResolvesWith(Thrown(NoEval))
ConfirmTaskFails == ConfirmTaskResolvesWith({"throws"})
V1RecallFails == V1RecallResolvesWith(Thrown(NoMatch))
V1TaskFails == V1TaskResolvesWith(Thrown(NoEval))
V1SummarizeFails == V1SummarizeResolvesWith({[kind |-> "throws", text |-> ""]})

NextMorningFallback ==
    \/ OpenMorning
    \/ SetGoalRecallInput
    \/ HandleGoalRecallSubmit
    \/ GoalRecallFails
    \/ HandleProceedToTask
    \/ SetTaskInput
    \/ HandleTaskEvaluate
    \/ TaskEvaluateFails
    \/ HandleConfirmTask
    \/ ConfirmTaskFails
    \/ HandleFinishPlanning
    \/ SetFreeMemo
    \/ HandleSaveAll
    \/ V1OpenMorning
    \/ V1SubmitRecall
    \/ V1RecallFails
    \/ V1SummarizeFails
    \/ V1SubmitTask
    \/ V1TaskFails
    \/ V1HandleTaskOptionMore
    \/ V1HandleTaskOptionDone
    \/ V1HandleFinish

SpecMorningFallback ==
    /\ Init
    /\ [][NextMorningFallback]_vars
    /\ WF_vars(GoalRecallFails) /\ WF_vars(TaskEvaluateFails) /\ WF_vars(ConfirmTaskFails)
    /\ WF_vars(V1RecallFails) /\ WF_vars(V1TaskFails) /\ WF_vars(V1SummarizeFails)
    /\ SF_vars(OpenMorning) /\ SF_vars(SetGoalRecallInput) /\ SF_vars(SetTaskInput)
    /\ SF_vars(HandleGoalRecallSubmit) /\ SF_vars(HandleProceedToTask)
    /\ SF_vars(HandleTaskEvaluate) /\ SF_vars(HandleConfirmTask)
    /\ SF_vars(HandleFinishPlanning) /\ SF_vars(HandleSaveAll)
    /\ SF_vars(V1OpenMorning) /\ SF_vars(V1SubmitRecall) /\ SF_vars(V1SubmitTask)
    /\ SF_vars(V1HandleTaskOptionDone) /\ SF_vars(V1HandleFinish)

(***************************************************************************)
(* The chat views: AITwinView (App.tsx 2663-2728), HelpModal (1471-1519)   *)
(* and the twin chat of AIToolsView (first revision, 1210-1258).  Each     *)
(* send captures newHistory in its closure; the continuation after the     *)
(* await writes [...newHistory, reply] whatever the history is by then.    *)
(***************************************************************************)
ChatKinds == {"twin", "help", "tools"}
TwinDates == {1, 2}

UserMessage(k) == [role |-> "user", text |-> "question", no |-> k]
ModelMessage(text) == [role |-> "model", text |-> text, no |-> 0]
Greeting(d) == [role |-> "model", text |-> "hello", no |-> d]

ChatIdle(kind) ==
    [kind |-> kind, open |-> kind # "help", selected |-> 0, history |-> <<>>, inflight |-> {},
     loading |-> FALSE, sent |-> 0]

InitChat ==
    /\ IdleApp
    /\ gw = NoGw
    /\ chat \in { ChatIdle(kind) : kind \in ChatKinds }

\* getHelpResponse: resolves with the model's text or an apology
GetHelpResponse(kind, text) ==
    IF kind = "throws" THEN Resolved("sorry") ELSE IF kind = "empty" THEN Resolved("undefined")
    ELSE Resolved(text)

\* handleSend and handleSendMessage up to the await
Send(c) ==
    LET newHistory == Append(c.history, UserMessage(c.sent + 1)) IN
    [c EXCEPT !.history = newHistory, !.inflight = @ \cup {newHistory}, !.loading = TRUE,
              !.sent = @ + 1]

\* the continuation of the send that captured newHistory
Respond(c, newHistory, reply) ==
    [c EXCEPT !.history = Append(newHistory, ModelMessage(reply)),
              !.inflight = @ \ {newHistory}, !.loading = FALSE]

\* AITwinView.handleSelectDate: the calendar is shown while no twin is selected
HandleSelectDate ==
    /\ chat.kind = "twin" /\ chat.selected = 0
    /\ \E d \in TwinDates :
        chat' = [chat EXCEPT !.selected = d, !.history = <<Greeting(d)>>]
    /\ UNCHANGED <<dash, boot, settings, setupData, store, ver, today, view, reflections, streak, memoDay, m, n, call, gw>>

\* AITwinView: the back arrow of the chat, setTwinReflection(null)
TwinDeselect ==
    /\ chat.kind = "twin" /\ chat.selected # 0
    /\ chat' = [chat EXCEPT !.selected = 0]
    /\ UNCHANGED <<dash, boot, settings, setupData, store, ver, today, view, reflections, streak, memoDay, m, n, call, gw>>

\* AITwinView.handleSend: Enter and the button work while a reply is awaited
HandleSend ==
    /\ chat.kind = "twin" /\ chat.selected # 0
    /\ chat.sent < MaxChat
    /\ chat' = Send(chat)
    /\ UNCHANGED <<dash, boot, settings, setupData, store, ver, today, view, reflections, streak, memoDay, m, n, call, gw>>

TwinResponds ==
    /\ chat.kind = "twin"
    /\ \E newHistory \in chat.inflight, a \in TextAnswers :
        chat' = Respond(chat, newHistory, GenerateAITwinResponse(a.kind, a.text).value)
    /\ UNCHANGED <<dash, boot, settings, setupData, store, ver, today, view, reflections, streak, memoDay, m, n, call, gw>>

\* HelpModal: opening shows the greeting when the history is empty
HelpOpen ==
    /\ chat.kind = "help" /\ ~chat.open
    /\ chat' = [chat EXCEPT !.open = TRUE,
                            !.history = IF @ = <<>> THEN <<Greeting(0)>> ELSE @]
    /\ UNCHANGED <<dash, boot, settings, setupData, store, ver, today, view, reflections, streak, memoDay, m, n, call, gw>>

HelpClose ==
    /\ chat.kind = "help" /\ chat.open
    /\ chat' = [chat EXCEPT !.open = FALSE]
    /\ UNCHANGED <<dash, boot, settings, setupData, store, ver, today, view, reflections, streak, memoDay, m, n, call, gw>>

\* HelpModal.handleSend: the button is disabled while loading, Enter is not
HelpHandleSend ==
    /\ chat.kind = "help" /\ chat.open
    /\ chat.sent < MaxChat
    /\ chat' = Send(chat)
    /\ UNCHANGED <<dash, boot, settings, setupData, store, ver, today, view, reflections, streak, memoDay, m, n, call, gw>>

HelpResponds ==
    /\ chat.kind = "help"
    /\ \E newHistory \in chat.inflight, a \in TextAnswers :
        chat' = Respond(chat, newHistory, GetHelpResponse(a.kind, a.text).value)
    /\ UNCHANGED <<dash, boot, settings, setupData, store, ver, today, view, reflections, streak, memoDay, m, n, call, gw>>

\* AIToolsView.handleSelectTwin: the list of twins stays beside the chat
HandleSelectTwin ==
    /\ chat.kind = "tools"
    /\ \E d \in TwinDates :
        chat' = [chat EXCEPT !.selected = d, !.history = <<>>]
    /\ UNCHANGED <<dash, boot, settings, setupData, store, ver, today, view, reflections, streak, memoDay, m, n, call, gw>>

\* AIToolsView.handleSendMessage: input and button are disabled while loading
HandleSendMessage ==
    /\ chat.kind = "tools" /\ chat.selected # 0 /\ ~chat.loading
    /\ chat.sent < MaxChat
    /\ chat' = Send(chat)
    /\ UNCHANGED <<dash, boot, settings, setupData, store, ver, today, view, reflections, streak, memoDay, m, n, call, gw>>

ToolsResponds ==
    /\ chat.kind = "tools"
    /\ \E newHistory \in chat.inflight, a \in TextAnswers :
        chat' = Respond(chat, newHistory, GenerateAITwinResponse(a.kind, a.text).value)
    /\ UNCHANGED <<dash, boot, settings, setupData, store, ver, today, view, reflections, streak, memoDay, m, n, call, gw>>

NextChat ==
    \/ HandleSelectDate
    \/ TwinDeselect
    \/ HandleSend
    \/ TwinResponds
    \/ HelpOpen
    \/ HelpClose
    \/ HelpHandleSend
    \/ HelpResponds
    \/ HandleSelectTwin
    \/ HandleSendMessage
    \/ ToolsResponds

SpecChat == InitChat /\ [][NextChat]_vars

(***************************************************************************)
(* Startup and onboarding (App.tsx 96-156 and 2858-2963).  Day 1 of the    *)
(* model is 2026-01-01, so "2026-01-21" is day 21 and "2026-03-31" day 90. *)
(***************************************************************************)
LegacyGoalDeadline == 21
LegacyQuarterDeadline == 90

\* the days on which the app is started
BootDays == {1, 22, 23, 71, 91, 92}
\* SetupView (first revision): commitmentWeeks is Math.max(3, ...), 3 by default
SetupWeeks == {3, 4}
\* DepositView (first revision): depositOptions
DepositOptions == {0, 100, 500, 1000, 5000}
\* DepositView (second revision): a number input, 1000 by default
DepositInputs == {0, 1000}

Malformed(empty) == [kind |-> "malformed", value |-> empty]

\* what localStorage holds when the app starts: nothing, what an earlier run
\* wrote, or a text JSON.parse does not accept
BootSettingsTexts(v) ==
    {NoStore.settings, Malformed(NoSettings)} \cup
    IF v = "v1" THEN {Json(V1NewSettings(1, 3, 1000))}
    ELSE {Json([V2NewSettings(1) EXCEPT !.depositAmount = 1000]),
          Json([NoSettings EXCEPT !.set = TRUE, !.depositAmount = 1000, !.commitmentStartDate = 1])}
BootReflectionsTexts(v) ==
    {NoStore.reflections, Malformed(<<>>), Json(<<>>)} \cup
    IF v = "v1" THEN {Json(StoredReflections)} ELSE {}
BootStores(v) ==
    {[settings |-> s, reflections |-> r,
      streak |-> IF v = "v1" /\ r.kind = "json" THEN Json(Len(r.value)) ELSE NoStore.streak] :
        s \in BootSettingsTexts(v), r \in BootReflectionsTexts(v)}

MigrateSettings(s, d) ==
    [s EXCEPT !.commitmentStartDate = IF @ = 0 THEN d ELSE @,
              !.quarterlyGoalDeadline =
                  IF @ # 0 THEN @
                  ELSE IF s.commitmentStartDate # 0 THEN LegacyQuarterDeadline
                  ELSE d + QuarterDays,
              !.threeWeekGoalDeadline = IF @ # 0 THEN @ ELSE LegacyGoalDeadline]

MigrateReflections(rs) ==
    [i \in 1..Len(rs) |->
        [rs[i] EXCEPT !.dailyTasks =
            [j \in 1..Len(@) |->
                [@[j] EXCEPT !.type = IF @ = "undefined" THEN "sub" ELSE @,
                             !.priority = IF @ = "undefined" THEN "medium" ELSE @]]]]

GetDaysDiff(d1, d2) == IF d2 >= d1 THEN d2 - d1 ELSE d1 - d2

\* the view the load effect of the second revision chooses
V2StartView(s, d) ==
    IF s.quarterlyGoalDeadline # 0 /\ d > s.quarterlyGoalDeadline THEN "QUARTERLY_RENEWAL"
    ELSE IF s.commitmentStartDate # 0
              /\ \/ s.threeWeekGoalDeadline # 0 /\ d > s.threeWeekGoalDeadline
                 \/ GetDaysDiff(s.commitmentStartDate, d) >= GoalDays
         THEN "GOAL_RENEWAL"
    ELSE "DASHBOARD"

\* what the user sees: App's render
Shown ==
    IF boot = "crashed" THEN "NOTHING"
    ELSE IF boot = "loading" THEN "SPINNER"
    ELSE IF ver = "v1" THEN
        IF view = "DASHBOARD" /\ ~settings.set THEN "LOADING_SETTINGS" ELSE view
    ELSE IF ~settings.set THEN "SETUP"
    ELSE IF settings.depositAmount = 0 /\ view = "DEPOSIT" THEN "DEPOSIT"
    ELSE view

InitBoot ==
    /\ ver \in {"v1", "v2"}
    /\ today \in BootDays
    /\ store \in BootStores(ver)
    /\ dash = NoDash
    /\ boot = "loading"
    /\ view = "DASHBOARD"
    /\ settings = NoSettings
    /\ setupData = NoSettings
    /\ reflections = <<>>
    /\ streak = 0
    /\ memoDay = today
    /\ m = MClosed
    /\ n = NClosed
    /\ call = NoCall
    /\ gw = NoGw
    /\ chat = [open |-> FALSE]

\* first revision: the load effect (96-120), then the save effect (123-129)
\* of the render that follows setIsLoading(false)
V1Load ==
    /\ ver = "v1" /\ boot = "loading"
    /\ LET s == store.settings
           r == store.reflections
           threw == s.kind = "malformed" \/ r.kind = "malformed"
           us == IF s.kind = "json" THEN s.value ELSE NoSettings
           rs == IF s.kind # "malformed" /\ r.kind = "json" THEN r.value ELSE <<>>
           st == IF ~threw /\ store.streak.kind = "json" THEN store.streak.value ELSE 0
       IN /\ settings' = us
          /\ reflections' = rs
          /\ streak' = st
          /\ view' = IF ~threw /\ s.kind \in {"json", "null"} THEN "DASHBOARD" ELSE "SETUP"
          /\ store' = V1Persist(us, rs, st)
    /\ boot' = "ready"
    /\ UNCHANGED <<dash, ver, today, memoDay, setupData, m, n, call, gw, chat>>

V1HandleProceedToDeposit ==
    /\ ver = "v1" /\ Shown = "SETUP"
    /\ \E weeks \in SetupWeeks :
        setupData' = [NoSettings EXCEPT !.set = TRUE, !.commitmentWeeks = weeks,
                                        !.commitmentStartDate = today]
    /\ view' = "DEPOSIT"
    /\ UNCHANGED <<dash, boot, settings, store, ver, today, reflections, streak, memoDay, m, n, call, gw, chat>>

V1HandleSaveSettings ==
    /\ ver = "v1" /\ Shown = "DEPOSIT"
    /\ \E deposit \in DepositOptions :
        settings' = [setupData EXCEPT !.depositAmount = deposit]
    /\ view' = "DASHBOARD"
    /\ store' = V1Persist(settings', reflections, streak)
    /\ UNCHANGED <<dash, boot, setupData, ver, today, reflections, streak, memoDay, m, n, call, gw, chat>>

\* second revision: the load effect (2858-2888); JSON.parse is not in a try
\* block, so a text it rejects ends the effect before setInitializing(false)
V2Load ==
    /\ ver = "v2" /\ boot = "loading"
    /\ LET s == store.settings
           r == store.reflections
           loaded == MigrateSettings(s.value, today)
       IN IF s.kind = "malformed"
          THEN boot' = "crashed" /\ UNCHANGED <<dash, settings, view, reflections>>
          ELSE /\ settings' = IF s.kind = "json" THEN loaded ELSE settings
               /\ view' = IF s.kind = "json" THEN V2StartView(loaded, today) ELSE view
               /\ IF r.kind = "malformed"
                  THEN boot' = "crashed" /\ UNCHANGED reflections
                  ELSE /\ boot' = "ready"
                       /\ reflections' = IF r.kind = "json" THEN MigrateReflections(r.value)
                                         ELSE reflections
    /\ UNCHANGED <<dash, ver, today, streak, memoDay, setupData, store, m, n, call, gw, chat>>

\* SetupView.handleSave (1933-1948) through handleSetupSave (2907)
HandleSetupSave ==
    /\ ver = "v2" /\ Shown = "SETUP"
    /\ settings' = V2NewSettings(today)
    /\ store' = SaveSettings(store, settings')
    /\ view' = "DEPOSIT"
    /\ UNCHANGED <<dash, boot, setupData, ver, today, reflections, streak, memoDay, m, n, call, gw, chat>>

\* DepositView's onSave (2960)
DepositOnSave ==
    /\ ver = "v2" /\ Shown = "DEPOSIT"
    /\ \E amount \in DepositInputs :
        settings' = [settings EXCEPT !.depositAmount = amount]
    /\ store' = SaveSettings(store, settings')
    /\ view' = "DASHBOARD"
    /\ UNCHANGED <<dash, boot, setupData, ver, today, reflections, streak, memoDay, m, n, call, gw, chat>>

HandleGoalRenewal ==
    /\ ver = "v2" /\ Shown = "GOAL_RENEWAL"
    /\ settings' = [settings EXCEPT !.commitmentStartDate = today,
                                    !.threeWeekGoalDeadline = today + GoalDays]
    /\ store' = SaveSettings(store, settings')
    /\ view' = "DASHBOARD"
    /\ UNCHANGED <<dash, boot, setupData, ver, today, reflections, streak, memoDay, m, n, call, gw, chat>>

\* QuarterlyRenewalView (2291-2294) hands over addDays(today, 90)
HandleQuarterlyRenewal ==
    /\ ver = "v2" /\ Shown = "QUARTERLY_RENEWAL"
    /\ settings' = [settings EXCEPT !.quarterlyGoalDeadline = today + QuarterDays]
    /\ store' = SaveSettings(store, settings')
    /\ view' = "DASHBOARD"
    /\ UNCHANGED <<dash, boot, setupData, ver, today, reflections, streak, memoDay, m, n, call, gw, chat>>

\* the page is closed and opened again, the same day or a later one: every
\* useState starts over, localStorage stays
Restart ==
    /\ boot # "loading"
    /\ \E d \in BootDays : d >= today /\ today' = d /\ memoDay' = d
    /\ boot' = "loading"
    /\ view' = "DASHBOARD"
    /\ settings' = NoSettings
    /\ setupData' = NoSettings
    /\ reflections' = <<>>
    /\ streak' = 0
    /\ UNCHANGED <<dash, ver, store, m, n, call, gw, chat>>

NextBoot ==
    \/ V1Load
    \/ V1HandleProceedToDeposit
    \/ V1HandleSaveSettings
    \/ V2Load
    \/ HandleSetupSave
    \/ DepositOnSave
    \/ HandleGoalRenewal
    \/ HandleQuarterlyRenewal
    \/ Restart

SpecBoot == InitBoot /\ [][NextBoot]_vars

(***************************************************************************)
(* DashboardView (first revision): the refund useMemo (App.tsx 554-581).   *)
(* Its arithmetic is that of IEEE 754 doubles.  A double is [m, e]: the    *)
(* number m * 2^e, with m a natural number below 2^53.  m is written in    *)
(* base 8192 (13 bits a digit), lowest digit first, no leading zero digit. *)
(***************************************************************************)
MaxStreak == 86
\* commitmentWeeks is at least 3 (App.tsx 295, 424)
RefundWeeks == {3, 4, 5, 8, 12}

RECURSIVE Limbs(_)
Limbs(k) == IF k = 0 THEN <<>> ELSE <<k % 8192>> \o Limbs(k \div 8192)

RECURSIVE NatOfLimbs(_)
NatOfLimbs(x) == IF x = <<>> THEN 0 ELSE x[1] + 8192 * NatOfLimbs(Tail(x))

RECURSIVE TrimLimbs(_)
TrimLimbs(x) == IF x = <<>> \/ x[Len(x)] # 0 THEN x ELSE TrimLimbs(SubSeq(x, 1, Len(x) - 1))

\* the digits of the number whose columns are cols, carry c coming in
RECURSIVE Carry(_, _)
Carry(cols, c) ==
    IF cols = <<>> THEN Limbs(c)
    ELSE <<(cols[1] + c) % 8192>> \o Carry(Tail(cols), (cols[1] + c) \div 8192)

Limb(x, i) == IF i >= 1 /\ i <= Len(x) THEN x[i] ELSE 0

LimbsAdd(a, b) ==
    Carry([i \in 1..(IF Len(a) > Len(b) THEN Len(a) ELSE Len(b)) |-> Limb(a, i) + Limb(b, i)], 0)

RECURSIVE ColumnSum(_, _, _, _)
ColumnSum(a, b, j, i) ==
    IF i = 0 THEN 0 ELSE a[i] * Limb(b, j - i + 1) + ColumnSum(a, b, j, i - 1)

LimbsMul(a, b) ==
    IF a = <<>> \/ b = <<>> THEN <<>>
    ELSE TrimLimbs(Carry([j \in 1..(Len(a) + Len(b) - 1) |-> ColumnSum(a, b, j, Len(a))], 0))

RECURSIVE SmallBitLen(_)
SmallBitLen(k) == IF k = 0 THEN 0 ELSE 1 + SmallBitLen(k \div 2)

BitLen(x) == IF x = <<>> THEN 0 ELSE 13 * (Len(x) - 1) + SmallBitLen(x[Len(x)])

\* bit j of x, bit 0 the lowest
BitAt(x, j) == (Limb(x, (j \div 13) + 1) \div 2 ^ (j % 13)) % 2

\* x \div 2^k and x * 2^k
ShiftRight(x, k) ==
    LET d == k \div 13
        s == k % 13
    IN TrimLimbs([i \in 1..(Len(x) - d) |->
                     (Limb(x, i + d) \div 2 ^ s) + (Limb(x, i + d + 1) % 2 ^ s) * 2 ^ (13 - s)])
ShiftLeft(x, k) ==
    IF x = <<>> THEN x ELSE [i \in 1..(k \div 13) |-> 0] \o LimbsMul(x, <<2 ^ (k % 13)>>)

\* round to nearest, ties to even, to 53 bits; sticky tells that the exact
\* value lies above x * 2^e
RoundDouble(x, e, sticky) ==
    LET k == BitLen(x) - 53 IN
    IF k <= 0 THEN [m |-> x, e |-> e]
    ELSE LET kept == ShiftRight(x, k)
             rest == sticky \/ \E j \in 0..(k - 2) : BitAt(x, j) = 1
             up == BitAt(x, k - 1) = 1 /\ (rest \/ BitAt(kept, 0) = 1)
             r == IF up THEN LimbsAdd(kept, <<1>>) ELSE kept
         IN IF BitLen(r) > 53 THEN [m |-> ShiftRight(r, 1), e |-> e + k + 1]
            ELSE [m |-> r, e |-> e + k]

FromInt(k) == [m |-> Limbs(k), e |-> 0]

DoubleMul(x, y) == RoundDouble(LimbsMul(x.m, y.m), x.e + y.e, FALSE)

DoubleAdd(x, y) ==
    LET e == IF x.e < y.e THEN x.e ELSE y.e
    IN RoundDouble(LimbsAdd(ShiftLeft(x.m, x.e - e), ShiftLeft(y.m, y.e - e)), e, FALSE)

\* the k digits of (r * 8192^k) \div b, for r < b, and what that division leaves
RECURSIVE DivLimbs(_, _, _)
DivLimbs(r, b, k) ==
    IF k = 0 THEN <<>> ELSE DivLimbs((r * 8192) % b, b, k - 1) \o <<(r * 8192) \div b>>

RECURSIVE DivRem(_, _, _)
DivRem(r, b, k) == IF k = 0 THEN r ELSE DivRem((r * 8192) % b, b, k - 1)

\* a / b for naturals a and b, 0 < b < 8192: the six digits after the point
\* hold more than the 53 bits and the guard bit of the quotient
DoubleDiv(a, b) ==
    RoundDouble(TrimLimbs(DivLimbs(a % b, b, 6) \o Limbs(a \div b)), -78, DivRem(a % b, b, 6) # 0)

\* Math.floor of a double that is not negative
DoubleFloor(x) ==
    IF x.e >= 0 THEN NatOfLimbs(ShiftLeft(x.m, x.e)) ELSE NatOfLimbs(ShiftRight(x.m, -x.e))

\* the literals 0.2 and 0.8 are the doubles nearest to 1/5 and 4/5
Point2 == DoubleDiv(1, 5)
Point8 == DoubleDiv(4, 5)

TotalCommitmentDays(weeks) == weeks * 7

\* variants of the schedule, each wrong in one respect
RefundLateEnd(deposit, weeks, st) ==
    LET total == TotalCommitmentDays(weeks) IN
    IF st <= 3 THEN FromInt(0)
    ELSE IF st = 4 THEN DoubleMul(FromInt(deposit), Point2)
    ELSE DoubleAdd(DoubleMul(FromInt(deposit), Point2),
                   DoubleMul(DoubleMul(FromInt(deposit), Point8),
                             IF st - 4 >= total - 3 THEN FromInt(1)
                             ELSE DoubleDiv(st - 4, total - 3)))

RefundLinear(deposit, weeks, st) ==
    LET total == TotalCommitmentDays(weeks) IN
    IF st >= total THEN FromInt(deposit)
    ELSE DoubleMul(FromInt(deposit), DoubleDiv(st, total))

RefundDropAfterFour(deposit, weeks, st) ==
    LET total == TotalCommitmentDays(weeks) IN
    IF st <= 3 THEN FromInt(0)
    ELSE IF st = 4 THEN DoubleMul(FromInt(deposit), Point8)
    ELSE DoubleAdd(DoubleMul(FromInt(deposit), Point2),
                   DoubleMul(DoubleMul(FromInt(deposit), Point8),
                             IF st - 4 >= total - 4 THEN FromInt(1)
                             ELSE DoubleDiv(st - 4, total - 4)))

RefundFromStart(deposit, weeks, st) ==
    LET total == TotalCommitmentDays(weeks) IN
    IF st <= 3 THEN FromInt(0)
    ELSE IF st = 4 THEN DoubleMul(FromInt(deposit), Point2)
    ELSE DoubleAdd(DoubleMul(FromInt(deposit), Point2),
                   DoubleMul(DoubleMul(FromInt(deposit), Point8),
                             IF st >= total THEN FromInt(1) ELSE DoubleDiv(st, total)))

RefundPercentageLost(deposit, finalRefund) ==
    IF deposit > 0 THEN DoubleMul(DoubleDiv(deposit - finalRefund, deposit), FromInt(100))
    ELSE FromInt(0)

\* `refund` before Math.floor(Math.min(deposit, refund))
Refund(deposit, weeks, st) ==
    LET total == TotalCommitmentDays(weeks) IN
    IF st <= 3 THEN FromInt(0)
    ELSE IF st = 4 THEN DoubleMul(FromInt(deposit), Point2)
    ELSE IF st > 4 /\ total > 4 THEN
        LET baseRefund == DoubleMul(FromInt(deposit), Point2)
            \* Math.min(1, (streak - 4) / (totalCommitmentDays - 4))
            progress == IF st - 4 >= total - 4 THEN FromInt(1)
                        ELSE DoubleDiv(st - 4, total - 4)
            additionalRefund == DoubleMul(DoubleMul(FromInt(deposit), Point8), progress)
        IN DoubleAdd(baseRefund, additionalRefund)
    ELSE IF st >= total THEN FromInt(deposit)
    ELSE FromInt(0)

\* deposit is a whole number, so the floor of the smaller of deposit and
\* refund is the smaller of deposit and the floor of refund
FinalRefund(deposit, weeks, st) ==
    LET f == DoubleFloor(Refund(deposit, weeks, st))
    IN IF deposit < f THEN deposit ELSE f

RefundPercentage(deposit, finalRefund) ==
    IF deposit > 0 THEN DoubleMul(DoubleDiv(finalRefund, deposit), FromInt(100))
    ELSE FromInt(0)

\* the useMemo as a whole
RefundMemo(s, st) ==
    IF ~s.set \/ s.depositAmount = 0
    THEN [set |-> TRUE, currentRefund |-> 0, refundPercentage |-> FromInt(0)]
    ELSE LET finalRefund == FinalRefund(s.depositAmount, s.commitmentWeeks, st)
         IN [set |-> TRUE, currentRefund |-> finalRefund,
             refundPercentage |-> RefundPercentage(s.depositAmount, finalRefund)]

InitRefund ==
    /\ ver = "v1"
    /\ today = 1
    /\ view = "DASHBOARD"
    /\ boot = "ready"
    /\ \E weeks \in RefundWeeks, deposit \in DepositOptions :
        settings = V1NewSettings(1, weeks, deposit)
    /\ setupData = NoSettings
    /\ reflections = <<>>
    /\ streak = 0
    /\ store = V1Persist(settings, reflections, streak)
    /\ dash = RefundMemo(settings, streak)
    /\ memoDay = 1
    /\ m = MClosed
    /\ n = NClosed
    /\ call = NoCall
    /\ gw = NoGw
    /\ chat = [open |-> FALSE]

\* a night save raises streak (App.tsx 191); the dashboard renders again and
\* its useMemo runs for the new streak
V1StreakRaised ==
    /\ ver = "v1" /\ dash.set
    /\ streak < MaxStreak
    /\ streak' = streak + 1
    /\ dash' = RefundMemo(settings, streak')
    /\ store' = V1Persist(settings, reflections, streak')
    /\ UNCHANGED <<boot, settings, setupData, ver, today, view, reflections, memoDay, m, n, call, gw, chat>>

NextRefund == V1StreakRaised

SpecRefund == InitRefund /\ [][NextRefund]_vars

(***************************************************************************)
(* The cumulative score and the streak the dashboard shows (App.tsx        *)
(* 549-552 and 2943-2944), over the reflections earlier days have left.    *)
(* A Reflection read from localStorage may lack its score.                 *)
(***************************************************************************)
MaxScoreEntries == 3
ScoreValues == {-15, 0, 20}

\* r.score || 0 (second revision) and r.score ?? 0 (first revision)
ScoreOrZero(r) == IF "score" \in DOMAIN r /\ r.score # 0 THEN r.score ELSE 0
ScoreOrNullish(r) == IF "score" \in DOMAIN r THEN r.score ELSE 0

\* sums that are wrong in one respect
RECURSIVE TotalScoreFromBase(_)
TotalScoreFromBase(rs) ==
    IF rs = <<>> THEN BaseScore
    ELSE TotalScoreFromBase(SubSeq(rs, 1, Len(rs) - 1)) + ScoreOrZero(rs[Len(rs)])

TotalScoreOfLast(rs) == IF rs = <<>> THEN 0 ELSE ScoreOrZero(rs[Len(rs)])

\* reflections.reduce((acc, r) => acc + (r.score || 0), 0)
RECURSIVE TotalScore(_)
TotalScore(rs) ==
    IF rs = <<>> THEN 0
    ELSE TotalScore(SubSeq(rs, 1, Len(rs) - 1)) + ScoreOrZero(rs[Len(rs)])

\* reflections.reduce((sum, r) => sum + (r.score ?? 0), 0)
RECURSIVE V1TotalScore(_)
V1TotalScore(rs) ==
    IF rs = <<>> THEN 0
    ELSE V1TotalScore(SubSeq(rs, 1, Len(rs) - 1)) + ScoreOrNullish(rs[Len(rs)])

\* what the dashboard is handed: totalScore and the streak
ScoreMemo(v, rs, st) ==
    [set |-> TRUE,
     totalScore |-> IF v = "v1" THEN V1TotalScore(rs) ELSE TotalScore(rs),
     currentStreak |-> IF v = "v1" THEN st ELSE Len(rs)]

\* the Reflection of day d as an earlier run stored it
ScoreEntries(v, d) ==
    LET task == IF v = "v1" THEN [text |-> "task", completed |-> FALSE]
                ELSE [text |-> "task", type |-> "main", priority |-> "high", completed |-> FALSE]
        nights == IF v = "v1"
                  THEN {V1NoNight, [V1NoNight EXCEPT !.set = TRUE, !.feelings = "text"]}
                  ELSE {NoNight, [NoNight EXCEPT !.set = TRUE, !.freeMemo = "note"]}
        mornings == IF v = "v1" THEN [set |-> TRUE] ELSE [set |-> TRUE, freeMemo |-> ""]
    IN { [date |-> d, morning |-> mornings, night |-> nt, dailyTasks |-> <<task>>] : nt \in nights }
       \cup { [date |-> d, morning |-> mornings, night |-> nt, dailyTasks |-> <<task>>, score |-> s] :
                 nt \in nights, s \in ScoreValues }

RECURSIVE ScoreLists(_, _)
ScoreLists(v, k) ==
    IF k = 0 THEN {<<>>}
    ELSE { Append(rs, e) : rs \in ScoreLists(v, k - 1), e \in ScoreEntries(v, k) }

InitScore ==
    /\ ver \in {"v1", "v2"}
    /\ \E k \in 0..MaxScoreEntries : reflections \in ScoreLists(ver, k)
    /\ today \in 1..MaxScoreEntries
    /\ memoDay = today
    /\ streak = IF ver = "v1"
                THEN Cardinality({i \in 1..Len(reflections) : reflections[i].night.set})
                ELSE 0
    /\ view = "DASHBOARD"
    /\ boot = "ready"
    /\ settings = OnboardedSettings(ver)
    /\ setupData = NoSettings
    /\ store = IF ver = "v1" THEN V1Persist(settings, reflections, streak)
               ELSE SaveReflections(SaveSettings(NoStore, settings), reflections)
    /\ dash = ScoreMemo(ver, reflections, streak)
    /\ m = MClosed
    /\ n = NClosed
    /\ call = NoCall
    /\ gw = NoGw
    /\ chat = [open |-> FALSE]

\* a task of today's Reflection is ticked on the dashboard (App.tsx 194-198,
\* 3006-3011); the dashboard renders again with the new list
ScoreTaskToggled ==
    /\ dash.set /\ view = "DASHBOARD"
    /\ FindIndex(reflections, today) # 0
    /\ LET tasks == ToggleCompleted(reflections[FindIndex(reflections, today)].dailyTasks, 1)
       IN reflections' = IF ver = "v1" THEN HandleUpdateTasks(reflections, today, tasks)
                         ELSE OnUpdateTasks(reflections, today, tasks)
    /\ store' = IF ver = "v1" THEN V1Persist(settings, reflections', streak)
                ELSE SaveReflections(store, reflections')
    /\ dash' = ScoreMemo(ver, reflections', streak)
    /\ UNCHANGED <<boot, settings, setupData, ver, today, view, streak, memoDay, m, n, call, gw, chat>>

\* the date turns over while the dashboard is open
ScoreDayPasses ==
    /\ dash.set /\ today < MaxScoreEntries
    /\ today' = today + 1
    /\ memoDay' = today'
    /\ dash' = ScoreMemo(ver, reflections, streak)
    /\ UNCHANGED <<boot, settings, setupData, store, ver, view, reflections, streak, m, n, call, gw, chat>>

NextScore ==
    \/ ScoreTaskToggled
    \/ ScoreDayPasses

SpecScore == InitScore /\ [][NextScore]_vars

(***************************************************************************)
(* Calendar (src/unnamed/part_001 99-190) on its own.  A date is a day     *)
(* number, a month a run of MonthLen days; settings give the start of the  *)
(* commitment and its length in days, 0 standing for a missing value.      *)
(***************************************************************************)
MaxCalDay == 4
MonthLen == 2
Months == 1..((MaxCalDay + MonthLen - 1) \div MonthLen)
\* days: the days of the month on display
MonthDays(month) == {d \in 1..MaxCalDay : (d - 1) \div MonthLen + 1 = month}

\* reflectionsMap: the dates whose Reflection has a morning and a night part
ReflectionsMap(rs) ==
    {rs[i].date : i \in {j \in 1..Len(rs) : rs[j].morning.set /\ rs[j].night.set}}

\* the commitment with its last day counted in
IsCommittedThroughEnd(s, d) ==
    /\ s.commitmentStartDate # 0 /\ s.goalDurationDays # 0
    /\ d >= s.commitmentStartDate /\ d <= s.commitmentStartDate + s.goalDurationDays

\* isCommitted: commitmentStart and commitmentEnd are null when the start
\* date or the duration is missing
IsCommitted(s, d) ==
    /\ s.commitmentStartDate # 0 /\ s.goalDurationDays # 0
    /\ d >= s.commitmentStartDate /\ d < s.commitmentStartDate + s.goalDurationDays

\* the button of one day: whether it is disabled, whether it shows the dot,
\* and the colours it gets (today's before the commitment's before the rest)
CalendarCell(rs, s, t, d) ==
    LET reflection == d \in ReflectionsMap(rs)
        isToday == d = t
    IN [disabled |-> ~reflection,
        dot |-> reflection,
        look |-> IF isToday THEN "today"
                 ELSE IF IsCommitted(s, d) THEN "committed"
                 ELSE IF reflection THEN "reflection" ELSE "plain"]

Calendar(rs, s, t, month) ==
    [set |-> TRUE, month |-> month, picked |-> 0,
     cells |-> [d \in MonthDays(month) |-> CalendarCell(rs, s, t, d)]]

\* the Reflection a day may have: any of morning and night set or not
CalendarEntries(d) ==
    { [date |-> d, morning |-> [set |-> a], night |-> [set |-> b], dailyTasks |-> <<>>] :
        a \in BOOLEAN, b \in BOOLEAN }
RECURSIVE CalendarLists(_)
CalendarLists(k) ==
    IF k = 0 THEN {<<>>}
    ELSE CalendarLists(k - 1)
         \cup { Append(rs, e) : rs \in CalendarLists(k - 1), e \in CalendarEntries(k) }
CalendarSettings ==
    { [set |-> TRUE, commitmentStartDate |-> a, goalDurationDays |-> b] :
        a \in {0, 2}, b \in {0, 2} }

InitCalendar ==
    /\ ver = "v2"
    /\ reflections \in CalendarLists(MaxCalDay)
    /\ today \in 1..MaxCalDay
    /\ memoDay = today
    /\ streak = 0
    /\ view = "DASHBOARD"
    /\ boot = "ready"
    /\ settings \in CalendarSettings
    /\ setupData = NoSettings
    /\ store = NoStore
    /\ \E month \in Months : dash = Calendar(reflections, settings, today, month)
    /\ m = MClosed
    /\ n = NClosed
    /\ call = NoCall
    /\ gw = NoGw
    /\ chat = [open |-> FALSE]

HandlePrevMonth ==
    /\ dash.set /\ dash.month > 1
    /\ dash' = [Calendar(reflections, settings, today, dash.month - 1) EXCEPT !.picked = dash.picked]
    /\ UNCHANGED <<boot, settings, setupData, store, ver, today, view, reflections, streak, memoDay, m, n, call, gw, chat>>

HandleNextMonth ==
    /\ dash.set /\ dash.month + 1 \in Months
    /\ dash' = [Calendar(reflections, settings, today, dash.month + 1) EXCEPT !.picked = dash.picked]
    /\ UNCHANGED <<boot, settings, setupData, store, ver, today, view, reflections, streak, memoDay, m, n, call, gw, chat>>

\* the button of a day: onClick={() => reflection && onDayClick(reflection)},
\* which a disabled button never runs
CalendarDayClicked ==
    /\ dash.set
    /\ \E d \in DOMAIN dash.cells :
        /\ ~dash.cells[d].disabled
        /\ d \in ReflectionsMap(reflections)
        /\ dash' = [dash EXCEPT !.picked = d]
    /\ UNCHANGED <<boot, settings, setupData, store, ver, today, view, reflections, streak, memoDay, m, n, call, gw, chat>>

NextCalendar ==
    \/ HandlePrevMonth
    \/ HandleNextMonth
    \/ CalendarDayClicked

SpecCalendar == InitCalendar /\ [][NextCalendar]_vars

(***************************************************************************)
(* GrowthGraph (src/components/Road.tsx 343-410) on its own.  Its points   *)
(* are a useMemo over [reflections, settings]: they are computed again     *)
(* when one of the two changes, with the date of that moment.              *)
(***************************************************************************)
MaxGraphDay == 3
MissedDayPenalty == 50
StartPoint == [date |-> 0, score |-> 0, rawScore |-> 0]

\* reflectionMap.get(d): the last Reflection of the list dated d, 0 for none
MapGet(rs, d) ==
    IF \E i \in 1..Len(rs) : rs[i].date = d
    THEN CHOOSE i \in 1..Len(rs) : rs[i].date = d /\ \A j \in (i + 1)..Len(rs) : rs[j].date # d
    ELSE 0

\* a daily score that charges today like any other day
DailyScoreTodayToo(rs, t, d) ==
    IF MapGet(rs, d) # 0 /\ (IF MapGet(rs, d) = 0 THEN FALSE ELSE rs[MapGet(rs, d)].night.set)
    THEN ScoreOrZero(rs[MapGet(rs, d)])
    ELSE 0 - MissedDayPenalty

\* dailyScore of day d, computed on day t
DailyScore(rs, t, d) ==
    IF MapGet(rs, d) # 0 /\ (IF MapGet(rs, d) = 0 THEN FALSE ELSE rs[MapGet(rs, d)].night.set)
    THEN ScoreOrZero(rs[MapGet(rs, d)])
    ELSE IF d # t THEN 0 - MissedDayPenalty
    ELSE IF MapGet(rs, d) # 0 THEN ScoreOrZero(rs[MapGet(rs, d)])
    ELSE 0

\* the points the loop has pushed once it is through day d
RECURSIVE PointsThrough(_, _, _, _)
PointsThrough(rs, startDate, t, d) ==
    IF d < startDate THEN <<>>
    ELSE LET points == PointsThrough(rs, startDate, t, d - 1)
             cumulative == (IF points = <<>> THEN 0 ELSE points[Len(points)].score)
                           + DailyScore(rs, t, d)
         IN Append(points, [date |-> d, score |-> cumulative, rawScore |-> DailyScore(rs, t, d)])

Earliest(S) == CHOOSE x \in S : \A y \in S : x <= y

\* data
GrowthGraph(rs, s, t) ==
    LET timestamps == {rs[i].date : i \in 1..Len(rs)}
                      \cup (IF s.commitmentStartDate # 0 THEN {s.commitmentStartDate} ELSE {})
    IN IF timestamps = {} THEN <<StartPoint>>
       ELSE LET points == PointsThrough(rs, Earliest(timestamps), t, t)
            IN IF points # <<>> /\ (IF points = <<>> THEN FALSE ELSE points[1].score # 0)
               THEN <<StartPoint>> \o points
               ELSE points

GraphMemo(rs, s, t) == [set |-> TRUE, today |-> t, data |-> GrowthGraph(rs, s, t)]

\* the lists of Reflections of the days up to k, at most one a day
RECURSIVE GraphLists(_)
GraphLists(k) ==
    IF k = 0 THEN {<<>>}
    ELSE GraphLists(k - 1)
         \cup { Append(rs, e) : rs \in GraphLists(k - 1), e \in ScoreEntries("v2", k) }

InitGraph ==
    /\ ver = "v2"
    /\ today \in 1..MaxGraphDay
    /\ reflections \in GraphLists(today)
    /\ memoDay = today
    /\ streak = 0
    /\ view = "DASHBOARD"
    /\ boot = "ready"
    /\ \E start \in 0..today :
          settings = [OnboardedSettings("v2") EXCEPT !.commitmentStartDate = start]
    /\ setupData = NoSettings
    /\ store = SaveReflections(SaveSettings(NoStore, settings), reflections)
    /\ dash = GraphMemo(reflections, settings, today)
    /\ m = MClosed
    /\ n = NClosed
    /\ call = NoCall
    /\ gw = NoGw
    /\ chat = [open |-> FALSE]

\* midnight passes: nothing the memo depends on changes, the points stay
GraphDayPasses ==
    /\ dash.set /\ today < MaxGraphDay
    /\ today' = today + 1
    /\ memoDay' = today'
    /\ UNCHANGED <<dash, boot, settings, setupData, store, ver, view, reflections, streak, m, n, call, gw, chat>>

\* the morning of a day without a Reflection is saved (App.tsx 3019-3026)
GraphMorningSaved ==
    /\ dash.set /\ FindIndex(reflections, today) = 0
    /\ \E penalty \in {0, RecallPenalty} :
          reflections' = MorningOnSave(reflections, today, "", WithNewTasks(<<>>, TRUE, <<>>), penalty)
    /\ store' = SaveReflections(store, reflections')
    /\ dash' = GraphMemo(reflections', settings, today)
    /\ UNCHANGED <<boot, settings, setupData, ver, today, view, streak, memoDay, m, n, call, gw, chat>>

\* a task of today's Reflection is ticked on the dashboard (App.tsx 3006-3011)
GraphTaskToggled ==
    /\ dash.set /\ FindIndex(reflections, today) # 0
    /\ LET tasks == ToggleCompleted(reflections[FindIndex(reflections, today)].dailyTasks, 1)
       IN reflections' = OnUpdateTasks(reflections, today, tasks)
    /\ store' = SaveReflections(store, reflections')
    /\ dash' = GraphMemo(reflections', settings, today)
    /\ UNCHANGED <<boot, settings, setupData, ver, today, view, streak, memoDay, m, n, call, gw, chat>>

NextGraph ==
    \/ GraphDayPasses
    \/ GraphMorningSaved
    \/ GraphTaskToggled

SpecGraph == InitGraph /\ [][NextGraph]_vars

(***************************************************************************)
(* The wasted-time log of NightReflectionView (App.tsx 2468-2488) from     *)
(* step 3 to the save, with a log of up to MaxWastedLogs entries.          *)
(***************************************************************************)
MaxWastedLogs == 3

InitWasted ==
    /\ ver = "v2"
    /\ today = 1
    /\ memoDay = 1
    /\ streak = 0
    /\ view = "NIGHT_REFLECTION"
    /\ boot = "ready"
    /\ settings = OnboardedSettings("v2")
    /\ setupData = NoSettings
    \* the morning was saved with or without the recall penalty, the task
    \* ticked on the dashboard, the note of step 1 written
    /\ \E penalty \in {0, RecallPenalty} :
          reflections = OnUpdateTasks(
                            MorningOnSave(<<>>, 1, "", WithNewTasks(<<>>, TRUE, <<>>), penalty),
                            1, ToggleCompleted(WithNewTasks(<<>>, TRUE, <<>>), 1))
    /\ store = SaveReflections(SaveSettings(NoStore, settings), reflections)
    /\ n = [NightInit(reflections[1].dailyTasks) EXCEPT !.step = 3, !.feelings = "note"]
    /\ dash = NoDash
    /\ m = MClosed
    /\ call = NoCall
    /\ gw = NoGw
    /\ chat = [open |-> FALSE]

WastedAdd == HandleAddWastedTimeUpTo(MaxWastedLogs)

NextWasted ==
    \/ WastedAdd
    \/ HandleRemoveWastedTime
    \/ NightNextFromWasted
    \/ HandleAddExtra
    \/ HandleRemoveExtra
    \/ NightNextFromExtras
    \/ NightStepBack
    \/ HandleFinish

SpecWasted == InitWasted /\ [][NextWasted]_vars

(***************************************************************************)
(* The gateway contract.                                                   *)
(***************************************************************************)
\* the value each function's catch block returns
GwFallbackValue(g) ==
    CASE g.fn = "compareGoalRecall" ->
             CompareFallback(g.input, g.goal, IF g.rev = 1 THEN FallbackPrefixLenV1 ELSE FallbackPrefixLen)
      [] g.fn = "evaluateTask" -> EvalFallback
      [] g.fn = "breakDownTaskIntoSteps" -> FallbackSteps
      [] g.fn = "analyzeSentiment" -> "positive"
      [] g.fn = "analyzeFailureReason" -> FailureFallback
      [] g.fn = "evaluateAlphaTask" -> AlphaFallback
      [] g.fn = "generateNightSummary" -> SummaryFallback
      [] g.fn = "generateAITwinResponse" -> TwinFallback

\* the declared return type of each function
GwShapeOk(g) ==
    LET v == g.result.value IN
    CASE g.fn = "compareGoalRecall" -> v \in BOOLEAN
      [] g.fn = "evaluateTask" ->
             v.judgment \in {"appropriate", "insufficient"} /\ v.response # "undefined"
      [] g.fn = "breakDownTaskIntoSteps" -> \A i \in 1..Len(v) : v[i] # "undefined"
      [] g.fn = "analyzeSentiment" -> v \in {"positive", "negative"}
      [] g.fn = "analyzeFailureReason" ->
             v.analysis \in {"responsibility", "excuse"} /\ v.response # "undefined"
      [] g.fn = "evaluateAlphaTask" ->
             ~v.isNull /\ v.meaningful \in {"true", "false"} /\ v.response # "undefined"
      [] g.fn = "generateNightSummary" -> v # "undefined"
      [] g.fn = "generateAITwinResponse" -> v # "undefined"

\* C3: every gateway function resolves, never rejects, whatever its caller
\* passes and whatever the model call does; the resolved value has the
\* declared shape, and is the fallback value when the model call throws.
C3_GatewayAlwaysResolvesWithShape ==
    gw.fn # "none" =>
        /\ gw.result.status = "resolved"
        /\ GwShapeOk(gw)
        /\ gw.answer.kind = "throws" => gw.result.value = GwFallbackValue(gw)

\* C9 as stated: under the fallback evaluator a first task shorter than 10
\* characters is judged 'insufficient', a task of 10 or more 'appropriate'.
C9_FallbackJudgesByLength ==
    (gw.fn = "evaluateTask" /\ gw.answer.kind = "throws") =>
        /\ (gw.isFirstTask /\ Len(gw.task) < 10) => gw.result.value.judgment = "insufficient"
        /\ Len(gw.task) >= 10 => gw.result.value.judgment = "appropriate"

\* C9 (amended): under the fallback evaluator (the model call throws or its
\* text is no JSON) every task, of any length and first or not, is judged
\* 'appropriate'.
C9_FallbackAlwaysAppropriate ==
    (gw.fn = "evaluateTask" /\ gw.answer.kind \in {"throws", "garbage"}) =>
        /\ gw.result.status = "resolved"
        /\ gw.result.value.judgment = "appropriate"

C9_Witness ==
    /\ gw.fn = "evaluateTask"
    /\ gw.rev = 2
    /\ gw.answer.kind = "throws"
    /\ gw.isFirstTask
    /\ Len(gw.task) < 10
    /\ gw.result.value.judgment = "appropriate"

(***************************************************************************)
(* The flows.                                                              *)
(***************************************************************************)
\* C1: in the night flow no step is reachable at which every input the
\* view offers (the text box, the buttons) leaves the flow where it is
C1_NightStepNeverDead ==
    /\ (InNightV1 /\ ~Loading) =>
           ENABLED ((V1HandleInput \/ V1HandleInputAsk \/ V1HandleButtonStatus
                     \/ V1HandleButtonMore \/ V1HandleButtonDone)
                    /\ (n' # n \/ call' # call \/ view' # view))
    /\ InNightV2 =>
           ENABLED ((SetFeelings \/ NightNextFromNote \/ ToggleLocalTask \/ SetFailureReason
                     \/ HandleFailureAnalysis \/ NightNextFromTasks \/ HandleAddWastedTime
                     \/ NightNextFromWasted \/ HandleAddExtra \/ NightNextFromExtras
                     \/ HandleFinish)
                    /\ (n' # n \/ call' # call \/ view' # view))

\* C2: when every model call throws, a morning flow once opened is saved: no
\* call leaves the flow loading for ever, and the steps lead to Save
C2_FallbacksNeverBlock ==
    /\ (view = "MORNING_CONVERSATION") ~> (view = "DASHBOARD" /\ HasMorning(reflections, today))
    /\ Loading ~> ~Loading

C2_Witness ==
    /\ view = "DASHBOARD" /\ HasMorning(reflections, today)
    /\ LET saved == reflections[FindIndex(reflections, today)] IN
       \/ ver = "v2" /\ Len(saved.dailyTasks) = 1 + Len(FallbackSteps)
       \/ ver = "v1" /\ Len(saved.dailyTasks) = 3

\* C4: the reflections list never holds two Reflections of one date
C4_OneReflectionPerDate ==
    \A i, j \in 1..Len(reflections) : reflections[i].date = reflections[j].date => i = j

C4_Witness ==
    /\ Len(reflections) = 2
    /\ \A i \in 1..2 : /\ reflections[i].night.set
                        /\ reflections[i].dailyTasks # <<>>
                        /\ reflections[i].dailyTasks[1].completed

\* C5: night Save sets the day's score to 10 + 5 x completed tasks + 5 x extras
\* - floor(wasted minutes / 10) + pendingScore
C5_NightSaveScore ==
    [][HandleFinish =>
        LET old == reflections[FindIndex(reflections, today)]
            new == reflections'[FindIndex(reflections', today)]
        IN new.score = 10 + 5 * CompletedCount(n.localTasks) + 5 * Len(n.extrasList)
                       - (SumMinutes(n.wastedTimeLogs) \div 10) + old.pendingScore]_vars

\* pendingScore -5, 2 completed tasks, 1 extra, 20 wasted minutes: score 18
C5_Witness ==
    /\ ver = "v2" /\ view = "DASHBOARD" /\ Len(reflections) = 1
    /\ reflections[1].night.set
    /\ CompletedCount(reflections[1].dailyTasks) = 2
    /\ Len(reflections[1].night.extras) = 1
    /\ reflections[1].night.wastedTimeMinutes = 20
    /\ reflections[1].score = 18

\* C6: a Reflection that has its night saved has pendingScore 0, whatever
\* happens afterwards
C6_PendingScoreStaysZero ==
    ver = "v2" =>
        \A i \in 1..Len(reflections) : reflections[i].night.set => reflections[i].pendingScore = 0

\* day 1 saved with the penalty in its score, day 2 planned with a penalty pending
C6_Witness ==
    /\ ver = "v2" /\ Len(reflections) = 2
    /\ \E i, j \in 1..2 :
        /\ reflections[i].date = 1 /\ reflections[i].night.set /\ reflections[i].score = 5
        /\ reflections[j].date = 2 /\ reflections[j].pendingScore = -5

\* C7: after a mismatch the flow lets the user go on to task entry, and Save
\* writes pendingScore -5; after a match Save writes pendingScore 0
C7_MismatchCostsFive ==
    /\ [](InMorningV2 /\ m.step = 1 /\ m.goalCheckResult = "mismatch" => ENABLED HandleProceedToTask)
    /\ [][HandleSaveAll =>
            reflections'[FindIndex(reflections', today)].pendingScore =
                (IF m.goalCheckResult = "mismatch" THEN -5 ELSE 0)]_vars

C7_Witness ==
    /\ ver = "v2" /\ view = "DASHBOARD" /\ Len(reflections) = 1
    /\ reflections[1].morning.set /\ reflections[1].pendingScore = -5

\* C8 as stated: a task judged 'insufficient' never goes on, neither to the
\* breakdown nor into the day's tasks
C8_InsufficientNeverProceeds ==
    [][(HandleConfirmTask \/ V1HandleTaskDecisionStick) =>
        m.evaluation.judgment # "insufficient"]_vars

\* C8 (amended): on 'insufficient' the flow stays at task entry and leaves the
\* choice to the user: revise and resubmit, or keep the task (to the breakdown
\* in the step form, into the day's tasks for 5 points in the chat)
C8_InsufficientLeavesTheChoice ==
    /\ [](/\ (InMorningV2 /\ m.step = 2 /\ m.evaluation.judgment = "insufficient"
                 /\ Truthy(m.aiResponse))
              => ENABLED ReviseTask /\ ENABLED HandleConfirmTask
          /\ (InMorningV1 /\ m.showReconsiderButtons)
              => /\ m.evaluation.judgment = "insufficient"
                 /\ ENABLED V1HandleTaskDecisionReconsider /\ ENABLED V1HandleTaskDecisionStick)
    /\ [][/\ (V1TaskResolves /\ m'.evaluation.judgment = "insufficient") =>
                m'.showReconsiderButtons /\ m'.collectedTasks = m.collectedTasks
          /\ ReviseTask => m'.step = 2 /\ m'.taskInput = m.taskInput /\ ~Truthy(m'.aiResponse)
          /\ V1HandleTaskDecisionReconsider =>
                m'.collectedTasks = m.collectedTasks /\ m'.score = m.score /\ ShowInputV1'
          /\ V1HandleTaskDecisionStick =>
                /\ m'.collectedTasks = Append(m.collectedTasks, m.evaluation.task)
                /\ m'.score = m.score - 5
          /\ (HandleConfirmTask /\ m.evaluation.judgment = "insufficient") =>
                call'.fn = "breakDownTaskIntoSteps" /\ call'.task = m.taskInput]_vars

\* a second 'insufficient' after a revision, and a kept 'insufficient' task
C8_Witness ==
    \/ /\ InMorningV2 /\ m.step = 4 /\ m.evaluation.judgment = "insufficient"
    \/ /\ InMorningV1 /\ m.showTaskButtons /\ m.evaluation.judgment = "insufficient"
       /\ Len(m.collectedTasks) = 2

\* C10: a send or a reply only appends: every message stays where it was
C10_HistoryAppendOnly ==
    [][(HandleSend \/ TwinResponds \/ HelpHandleSend \/ HelpResponds
        \/ HandleSendMessage \/ ToolsResponds) =>
        \A i \in 1..Len(chat.history) :
            i <= Len(chat'.history) /\ chat'.history[i] = chat.history[i]]_vars

\* C11: while a call issued by a chat is pending the chat issues no other
\* one, so at most one call of it is in flight
C11_OneCallInFlight == Cardinality(chat.inflight) <= 1

(***************************************************************************)
(* Startup, onboarding and persistence.                                    *)
(***************************************************************************)
StoreMalformed == store.settings.kind = "malformed" \/ store.reflections.kind = "malformed"
LoadedSettings == IF store.settings.kind = "json" THEN store.settings.value ELSE NoSettings
LoadedReflections == IF store.reflections.kind = "json" THEN store.reflections.value ELSE <<>>

\* C12: whenever the app has started and holds no UserSettings record, on
\* the first launch and on every later one before onboarding is completed,
\* the screen shown is onboarding (the setup steps or the deposit step)
C12_NoSettingsShowsOnboarding ==
    (boot = "ready" /\ ~settings.set) => Shown \in {"SETUP", "DEPOSIT"}

\* C13: a start that finds a settings or reflections text JSON.parse rejects
\* ends on the onboarding screen: no error, no endless loading
C13_MalformedTextShowsOnboarding ==
    [][(boot = "loading" /\ StoreMalformed /\ boot' # "loading") => Shown' = "SETUP"]_vars

\* C14: between two operations the settings and reflections in localStorage
\* are the ones in memory
C14_StoreEqualsMemory ==
    (boot = "ready" /\ ~Loading) =>
        /\ settings = LoadedSettings
        /\ reflections = LoadedReflections

(***************************************************************************)
(* The refund schedule.                                                    *)
(***************************************************************************)
Deposit == settings.depositAmount
CommitmentDays == TotalCommitmentDays(settings.commitmentWeeks)

\* C15: with a deposit above 0, once streak has reached totalCommitmentDays
\* (commitmentWeeks * 7) the refund is the whole deposit
C15_FullRefundAtCommitment ==
    (dash.set /\ Deposit > 0 /\ streak >= CommitmentDays) => dash.currentRefund = Deposit

C15_Witness ==
    /\ dash.set /\ Deposit = 5000 /\ settings.commitmentWeeks = 4
    /\ streak = 28 /\ dash.currentRefund = 5000

\* C16: the refund is 0 up to a streak of 3, the whole part of 20% of the
\* deposit at a streak of 4, and 0 at every streak when the deposit is 0
C16_NothingBeforeFourDays ==
    dash.set =>
        /\ streak <= 3 => dash.currentRefund = 0
        /\ streak = 4 => dash.currentRefund = (Deposit * 20) \div 100
        /\ Deposit = 0 => dash.currentRefund = 0

C16_Witness ==
    /\ dash.set /\ Deposit = 500 /\ streak = 4 /\ dash.currentRefund = 100

\* C17: a longer streak never lowers the refund
C17_RefundNeverFalls ==
    [][(dash.set /\ dash'.set /\ settings' = settings /\ streak' >= streak)
          => dash'.currentRefund >= dash.currentRefund]_vars

C17_Witness ==
    /\ dash.set /\ Deposit = 1000 /\ settings.commitmentWeeks = 3
    /\ streak = 10 /\ dash.currentRefund = 482

\* 1024 times the exact percentage and 1024 times the displayed one, whole parts
ExactPercentage1024 == IF Deposit > 0 THEN (dash.currentRefund * 100 * 1024) \div Deposit ELSE 0
Percentage1024 == DoubleFloor([dash.refundPercentage EXCEPT !.e = @ + 10])

\* C18: the refund is a whole number from 0 to the deposit, and the
\* percentage is refund / deposit * 100 (within a double's rounding), 0
\* when the deposit is 0
C18_RefundWithinDeposit ==
    dash.set =>
        /\ dash.currentRefund \in 0..Deposit
        /\ Percentage1024 - ExactPercentage1024 \in {-1, 0, 1}

C18_Witness ==
    /\ dash.set /\ Deposit = 1000 /\ settings.commitmentWeeks = 5
    /\ streak = 20 /\ dash.currentRefund > 200 /\ dash.currentRefund < 1000
    /\ Percentage1024 > 20 * 1024

\* C19: between a streak of 4 and totalCommitmentDays the refund is the
\* whole part of deposit * (0.2 + 0.8 * (streak - 4) / (total - 4)), that
\* is of deposit * ((total - 4) + 4 * (streak - 4)) / (5 * (total - 4))
C19_LinearBetween ==
    (dash.set /\ Deposit > 0 /\ CommitmentDays > 4 /\ streak > 4 /\ streak < CommitmentDays) =>
        dash.currentRefund =
            (Deposit * ((CommitmentDays - 4) + 4 * (streak - 4))) \div (5 * (CommitmentDays - 4))

C19_Witness ==
    /\ dash.set /\ Deposit = 5000 /\ settings.commitmentWeeks = 4
    /\ streak = 17 /\ dash.currentRefund = 3166

(***************************************************************************)
(* The streak.                                                             *)
(***************************************************************************)
\* the header of the first revision shows streak (App.tsx 266), the second
\* revision passes currentStreak = reflections.length (2944) to the dashboard
DisplayedStreak == IF ver = "v1" THEN streak ELSE Len(reflections)
NightEntries == {i \in 1..Len(reflections) : reflections[i].night.set}

\* C20: the streak shown is the number of reflections that have a night
\* entry: a reflection with only a morning entry does not count, and a night
\* save that finds no reflection for today changes nothing
C20_StreakCountsNightEntries == DisplayedStreak = Cardinality(NightEntries)

(***************************************************************************)
(* The cumulative score.                                                   *)
(***************************************************************************)
\* the sum of the scores of the reflections at the positions S
RECURSIVE ScoreSum(_)
ScoreSum(S) ==
    IF S = {} THEN 0
    ELSE LET i == CHOOSE j \in S : TRUE
         IN (IF "score" \in DOMAIN reflections[i] THEN reflections[i].score ELSE 0)
            + ScoreSum(S \ {i})

\* reflections in the order p
Permuted(p) == [i \in 1..Len(reflections) |-> reflections[p[i]]]

\* C21: with an empty reflections list the cumulative score shown is 0 and
\* the streak shown is 0
C21_EmptyListScoresZero ==
    (dash.set /\ reflections = <<>>) => (dash.totalScore = 0 /\ dash.currentStreak = 0)

C21_Witness == dash.set /\ reflections = <<>> /\ dash.totalScore = 0 /\ today = 2

C23_NoteNeededToLeave ==
    [][/\ (InNightV2 /\ n.step = 1 /\ view' = view /\ n'.step # 1)
            => EditorText(n.feelings) # ""
       /\ (InNightV1 /\ n.step = "awaiting_feelings" /\ view' = view
               /\ n'.step # "awaiting_feelings")
            => n'.nightData.feelings # ""]_vars

\* C24: the night flow leaves the task review with a task still incomplete
\* only once the user has given a reason for the tasks left incomplete: in
\* the first revision the reason handed to the failure analysis of the task
\* is not empty, in the second the reason field is not empty
C24_ReasonNeededToLeave ==
    [][/\ (InNightV1 /\ n.step = "awaiting_task_failure_reason" /\ view' = view
               /\ n'.step # n.step)
            => (call.fn = "analyzeFailureReason" /\ call.reason # "")
       /\ (InNightV2 /\ n.step = 2 /\ view' = view /\ n'.step = 3
               /\ Uncompleted(n.localTasks) > 0)
            => (n.failureReason # "" /\ Truthy(n.aiFailureFeedback))]_vars

\* the step of the night flow the view is at: 1 the free reflection, 2 the
\* task review, 3 the wasted-time log, 4 the extra accomplishments, 5 the
\* final memo (in the first revision the summary and the plan for tomorrow)
V1NightPhase(step) ==
    CASE step \in {"start", "awaiting_feelings", "post_feelings"} -> 1
      [] step \in {"task_review_start", "awaiting_task_status", "awaiting_task_experience",
                   "awaiting_task_failure_reason", "awaiting_excuse_followup", "next_task"} -> 2
      [] step \in {"awaiting_wasted_time", "awaiting_wasted_time_after_failure"} -> 3
      [] step \in {"alpha_review_start", "awaiting_alpha_task", "awaiting_alpha_justification",
                   "awaiting_alpha_experience", "awaiting_more_alphas",
                   "ask_for_another_alpha"} -> 4
      [] OTHER -> 5
NightPhase == IF ver = "v2" THEN n.step ELSE V1NightPhase(n.step)
\* the night view hands its data to App, which stores it
NightSaved == view = "NIGHT_REFLECTION" /\ view' = "DASHBOARD" /\ store' # store

\* C25: the night flow starts at the free reflection, moves forward one step
\* at a time (free reflection, task review, wasted-time log, extra
\* accomplishments, final memo) and saves from the final memo only, so no
\* save skips a step
C25_NightStepsInOrder ==
    [][/\ (view # "NIGHT_REFLECTION" /\ view' = "NIGHT_REFLECTION") => NightPhase' = 1
       /\ (view = "NIGHT_REFLECTION" /\ view' = "NIGHT_REFLECTION")
            => NightPhase' <= NightPhase + 1
       /\ NightSaved => NightPhase = 5]_vars

(***************************************************************************)
(* The reflections list.                                                   *)
(***************************************************************************)
\* the reflections of the dates other than d, in list order
OtherDates(rs, d) == SelectSeq(rs, LAMBDA r : r.date # d)

\* C26: whatever changes the reflections list (morning save, night save, a
\* task toggle) leaves every reflection of a date other than today in the
\* list as it was, and keeps a reflection for today once there is one
C26_OnlyTodayChanges ==
    [][reflections' # reflections =>
          /\ OtherDates(reflections', today) = OtherDates(reflections, today)
          /\ FindIndex(reflections, today) # 0 => FindIndex(reflections', today) # 0]_vars

(***************************************************************************)
(* The tasks of the day.                                                   *)
(***************************************************************************)
\* the task at position j of a day's list carries the marks of its origin:
\* a step of a breakdown is sub and low, the first task main and high, a
\* later task of the user medium
TaskMarked(tasks, j) ==
    /\ {"type", "priority"} \subseteq DOMAIN tasks[j]
    /\ IF ~({"type", "priority"} \subseteq DOMAIN tasks[j]) THEN FALSE
       ELSE IF tasks[j].text = "step" THEN tasks[j].type = "sub" /\ tasks[j].priority = "low"
       ELSE IF j = 1 THEN tasks[j].type = "main" /\ tasks[j].priority = "high"
       ELSE tasks[j].priority = "medium"

\* C27: in every task list the morning flow of the second revision stores,
\* the first task is main and high, every later task the user entered is
\* medium, every step of a breakdown is sub and low
C27_TasksCarryTheirMarks ==
    ver = "v2" =>
        \A i \in 1..Len(reflections) :
            \A j \in 1..Len(reflections[i].dailyTasks) : TaskMarked(reflections[i].dailyTasks, j)

\* a stored list of the first task, a step of its breakdown and a later task
C27_Witness ==
    /\ ver = "v2" /\ view = "DASHBOARD" /\ Len(reflections) = 1
    /\ Len(reflections[1].dailyTasks) = 3
    /\ reflections[1].dailyTasks[2].text = "step"
    /\ reflections[1].dailyTasks[3].text = "task"
    /\ reflections[1].dailyTasks[3].priority = "medium"

\* the morning view hands its tasks to App, which stores them
MorningSaved == view = "MORNING_CONVERSATION" /\ view' = "DASHBOARD" /\ store' # store
\* tasks has a first task of type main and no other task of that type
OneMainFirst(tasks) ==
    /\ tasks # <<>>
    /\ \A j \in 1..Len(tasks) :
          IF "type" \in DOMAIN tasks[j] THEN tasks[j].type = "main" <=> j = 1 ELSE FALSE

\* C28: the task list a morning save stores for today is not empty, its first
\* task is of type main and no other task is
C28_OneMainTaskFirst ==
    [][MorningSaved =>
          OneMainFirst(reflections'[FindIndex(reflections', today)].dailyTasks)]_vars

(***************************************************************************)
(* The calendar.                                                           *)
(***************************************************************************)
\* the days from the start of the commitment up to, not including, the day
\* goalDurationDays later; no day while the start is missing
CommitmentDaysOf(s) ==
    IF s.commitmentStartDate = 0 THEN {}
    ELSE {d \in 1..MaxCalDay :
            d >= s.commitmentStartDate /\ d < s.commitmentStartDate + s.goalDurationDays}
\* the Reflections of day d
EntriesOf(d) == {i \in 1..Len(reflections) : reflections[i].date = d}

\* C29 as stated: a day on display carries the commitment's colours exactly
\* when it lies in the commitment, shows the dot when its Reflection has
\* morning and night, and cannot be clicked when it has neither
C29_CalendarMarks ==
    dash.set =>
        \A d \in DOMAIN dash.cells :
            /\ dash.cells[d].look = "committed" <=> d \in CommitmentDaysOf(settings)
            /\ (\E i \in EntriesOf(d) : reflections[i].morning.set /\ reflections[i].night.set)
                 => dash.cells[d].dot
            /\ (\A i \in EntriesOf(d) : ~reflections[i].morning.set /\ ~reflections[i].night.set)
                 => dash.cells[d].disabled

\* C29 amended: the same, with today set apart: today carries today's
\* colours whether it lies in the commitment or not
C29_CalendarMarksButToday ==
    dash.set =>
        \A d \in DOMAIN dash.cells :
            /\ dash.cells[d].look = "committed" <=> (d # today /\ d \in CommitmentDaysOf(settings))
            /\ dash.cells[d].look = "today" <=> d = today
            /\ (\E i \in EntriesOf(d) : reflections[i].morning.set /\ reflections[i].night.set)
                 => dash.cells[d].dot
            /\ (\A i \in EntriesOf(d) : ~reflections[i].morning.set /\ ~reflections[i].night.set)
                 => dash.cells[d].disabled

\* the month of days 3 and 4 of a commitment over days 2 and 3: day 3 in the
\* commitment's colours with its dot, day 4, the day after the commitment,
\* plain and not clickable, a day of the month picked
C29_Witness ==
    /\ dash.set /\ dash.month = 2 /\ today = 1 /\ dash.picked = 3
    /\ settings.commitmentStartDate = 2 /\ settings.goalDurationDays = 2
    /\ dash.cells[3].look = "committed" /\ dash.cells[3].dot
    /\ dash.cells[4].look = "plain" /\ dash.cells[4].disabled
    /\ EntriesOf(4) = {}

(***************************************************************************)
(* The growth graph.                                                       *)
(***************************************************************************)
\* the dates the graph knows: those of the Reflections and the start of the
\* commitment
KnownDates ==
    {reflections[i].date : i \in 1..Len(reflections)}
    \cup (IF settings.commitmentStartDate # 0 THEN {settings.commitmentStartDate} ELSE {})
\* the points of the days, without the point the drawing starts from
VisitedPoints == IF dash.data[1].date = 0 THEN Tail(dash.data) ELSE dash.data
\* by how much the point of position k moves the cumulative score
StepOf(k) == VisitedPoints[k].score - (IF k = 1 THEN 0 ELSE VisitedPoints[k - 1].score)
CompletedOn(d) == \E i \in 1..Len(reflections) : reflections[i].date = d /\ reflections[i].night.set
\* the score of day d's Reflection, 0 without a Reflection or a score
ScoreOn(d) ==
    IF \E i \in 1..Len(reflections) : reflections[i].date = d
    THEN ScoreOrZero(reflections[CHOOSE i \in 1..Len(reflections) : reflections[i].date = d])
    ELSE 0
\* the graph has one point a day from the earliest known date through the
\* day it was computed on, in order
EveryDayVisited ==
    /\ Len(VisitedPoints) = dash.today - Earliest(KnownDates) + 1
    /\ \A k \in 1..Len(VisitedPoints) : VisitedPoints[k].date = Earliest(KnownDates) + k - 1

\* C30 as stated: every day from the earliest known date through today is
\* visited in order; a day with a completed reflection adds its score, every
\* other visited day takes 50 off
C30_GraphChargesMissedDays ==
    (dash.set /\ KnownDates # {}) =>
        /\ EveryDayVisited
        /\ \A k \in 1..Len(VisitedPoints) :
              StepOf(k) = IF CompletedOn(VisitedPoints[k].date)
                          THEN ScoreOn(VisitedPoints[k].date)
                          ELSE 0 - 50

\* C30 amended: the same for the days before today; today is not charged:
\* it adds the score of its Reflection, completed or not, and nothing
\* without a Reflection
C30_GraphChargesPastDays ==
    (dash.set /\ KnownDates # {}) =>
        /\ EveryDayVisited
        /\ \A k \in 1..Len(VisitedPoints) :
              StepOf(k) = IF CompletedOn(VisitedPoints[k].date)
                               \/ VisitedPoints[k].date = dash.today
                          THEN ScoreOn(VisitedPoints[k].date)
                          ELSE 0 - 50

\* three days: a completed day of score 20, a day without a Reflection, and
\* today with its morning only
C30_Witness ==
    /\ dash.set /\ dash.today = 3 /\ today = 3
    /\ Len(VisitedPoints) = 3
    /\ CompletedOn(1) /\ VisitedPoints[1].score = 20
    /\ VisitedPoints[2].rawScore = 0 - 50 /\ VisitedPoints[2].score = 0 - 30
    /\ FindIndex(reflections, 3) # 0 /\ ~CompletedOn(3)
    /\ VisitedPoints[3].score = 0 - 30

(***************************************************************************)
(* The wasted-time log.                                                    *)
(***************************************************************************)
\* the minutes of the entries of log at the positions S, added up
RECURSIVE MinutesAt(_, _)
MinutesAt(log, S) ==
    IF S = {} THEN 0
    ELSE LET i == CHOOSE x \in S : TRUE IN log[i] + MinutesAt(log, S \ {i})

\* C31: the night save writes the log as it stands and, as its total, the
\* sum of the minutes of the entries in it; step 3 can be left with an empty
\* log, and a save with an empty log takes nothing off the score
C31_WastedTotalIsLogSum ==
    /\ []((InNightV2 /\ n.step = 3) => ENABLED NightNextFromWasted)
    /\ [][HandleFinish =>
            LET old == reflections[FindIndex(reflections, today)]
                new == reflections'[FindIndex(reflections', today)]
            IN /\ new.night.wastedTimeLogs = n.wastedTimeLogs
               /\ new.night.wastedTimeMinutes = MinutesAt(n.wastedTimeLogs, DOMAIN n.wastedTimeLogs)
               /\ n.wastedTimeLogs = <<>> =>
                     new.score = 10 + 5 * CompletedCount(n.localTasks) + 5 * Len(n.extrasList)
                                 + old.pendingScore]_vars

\* a night saved with the log 20, 5, 20: 45 minutes, 4 points off
C31_Witness ==
    /\ view = "DASHBOARD" /\ Len(reflections) = 1 /\ reflections[1].night.set
    /\ reflections[1].night.wastedTimeLogs = <<20, 5, 20>>
    /\ reflections[1].night.wastedTimeMinutes = 45
    /\ reflections[1].score = 10 + 5 - 4

(***************************************************************************)
(* Finalized days.                                                         *)
(***************************************************************************)
\* C32: once a day's Reflection has its night part, no step changes its score
\* or its dailyTasks
C32_FinalizedIsFrozen ==
    [][\A i \in 1..Len(reflections) :
          reflections[i].night.set =>
              \E j \in 1..Len(reflections') :
                  /\ reflections'[j].date = reflections[i].date
                  /\ reflections'[j].score = reflections[i].score
                  /\ reflections'[j].dailyTasks = reflections[i].dailyTasks]_vars

(***************************************************************************)
(* The task that is confirmed.                                             *)
(***************************************************************************)
\* C33: the task handed to the breakdown on confirmation is the task that
\* was last submitted to evaluateTask, whose evaluation is on display
C33_ConfirmedIsEvaluated ==
    [][(ver = "v2" /\ call = NoCall /\ call'.fn = "breakDownTaskIntoSteps") =>
          call'.task = m.evaluation.task]_vars

(***************************************************************************)
(* The note of a saved night.                                              *)
(***************************************************************************)
\* C34: every night record written by the save of the second revision holds
\* a free-reflection note (freeMemo) with text in it
C34_SavedNoteHasText ==
    ver = "v2" =>
        \A i \in 1..Len(reflections) :
            reflections[i].night.set => EditorText(reflections[i].night.freeMemo) # ""

(***************************************************************************)
(* Leaving the night flow without saving.                                  *)
(***************************************************************************)
\* C35: no step taken inside the night flow of the second revision, the save
\* apart, changes a Reflection, so that leaving with Back finds today's
\* Reflection, the completed flag of every task included, as it was when the
\* flow was opened
C35_BackLeavesTodayUntouched ==
    [][(ver = "v2" /\ view = "NIGHT_REFLECTION" /\ ~NightSaved) =>
          reflections' = reflections]_vars

(***************************************************************************)
(* Nights follow mornings.                                                 *)
(***************************************************************************)
\* C36: every Reflection that has its night part has its morning part; the
\* night flow is entered only on a date whose Reflection has a morning part,
\* and a night part is written only to the Reflection of today, which has one
C36_NightNeedsMorning ==
    /\ [](\A i \in 1..Len(reflections) : reflections[i].night.set => reflections[i].morning.set)
    /\ [][(view # "NIGHT_REFLECTION" /\ view' = "NIGHT_REFLECTION") =>
             HasMorning(reflections, today)]_vars
    /\ [][\A i \in 1..Len(reflections') :
             (/\ reflections'[i].night.set
              /\ ~HasNight(reflections, reflections'[i].date)) =>
                 /\ reflections'[i].date = today
                 /\ HasMorning(reflections, today)]_vars

(***************************************************************************)
(* The view at startup.                                                    *)
(***************************************************************************)
\* C37: when the second revision starts with stored settings whose
\* quarterlyGoalDeadline and threeWeekGoalDeadline today is not after, it
\* opens the dashboard and not a renewal view
C37_NoRenewalBeforeDeadline ==
    [][(/\ ver = "v2" /\ boot = "loading" /\ boot' = "ready"
        /\ store.settings.kind = "json"
        /\ store.settings.value.quarterlyGoalDeadline # 0
        /\ store.settings.value.threeWeekGoalDeadline # 0
        /\ today <= store.settings.value.quarterlyGoalDeadline
        /\ today <= store.settings.value.threeWeekGoalDeadline) =>
           view' = "DASHBOARD"]_vars

=============================================================================
